---- MODULE Spec2Model ----
(***************************************************************************)
(* A model of the agent daemon's session subsystem                         *)
(* (repo_agent/daemon/session_manager.py), of the reasoning loop that the  *)
(* session worker drives (repo_agent/agent/loop.py), of the event read     *)
(* path of the HTTP API (repo_agent/daemon/app.py) and of the clients that *)
(* follow the event stream (repo_agent/cli/remote.py, repo_agent/ui/tui.py)*)
(*                                                                         *)
(* Every block the code runs under the session's condition lock, and every *)
(* single queue operation, is one atomic action; the steps of one thread   *)
(* are sequenced by its program counter, so that the worker thread and the *)
(* HTTP handler threads interleave exactly where the code lets them.       *)
(***************************************************************************)
EXTENDS Integers, Sequences, FiniteSets, TLC

\* ---------------------------------------------------------------- bounds
\* capacity of a session's event buffer (max_events, scaled down)
MaxEvents == 4
\* number of turns submitted in a run with concurrent handler threads
MaxTurns == 2
\* number of turns submitted in a run with a client reading the events
MaxTurnsRead == 1
\* calls of clear() and of cancel() in a run
MaxClears == 1
MaxCancels == 2
\* calls of get_status in a run
MaxStatus == 1
\* model invocations the provider answers with tool calls, per turn
MaxToolRounds == 1
\* model invocations answered with tool calls in the turn that tests the caps
MaxCapRounds == 2
\* largest raw value of an "after" query parameter
MaxAfter == 3
\* largest raw value of a "limit" query parameter
MaxLimit == 2
\* the limit the following client asks for (200 resp. 300, scaled down)
ClientLimit == 2

\* ------------------------------------------------------ program constants
MAX_TOOL_CALLS_PER_TURN == 15
MAX_RAW_TOOL_CALLS_PER_TURN == 60
MAX_RETRIES == 3
DEFAULT_RETRY_DELAY == 10
\* the cap of a delay read from the error message, min(..., 60)
RetryDelayMax == 60
\* tool_result_previews[-5:]
PreviewsKept == 5
\* the clamps of do_GET's query parameters; the upper clamp of "after" is
\* 10**12, written as the largest integer the model checker represents
AfterMax == 2147483647
WaitMsMax == 30000
LimitMax == 1000
LimitDefault == 200
\* wait_ms of the following clients
ClientWaitMs == 1000

Handlers == {"h1", "h2"}
Turns == 1..(MaxTurns + MaxTurnsRead)
Pollers == {"poller", "follower"}
\* turn_id of an event that belongs to no turn (None)
NoTurn == 0
\* the stop sentinel of the turn queue (None)
Sentinel == 0

VARIABLES
    \* AgentSession fields
    events,          \* _events: the bounded event buffer
    last_event_id,   \* _last_event_id
    turn_counter,    \* _turn_counter
    busy,            \* _busy
    stopped,         \* _stopped
    queue,           \* _queue: turn ids, Sentinel for None
    history,         \* history: the provider messages
    \* the session worker thread
    w,
    \* HTTP handler threads running submit_turn / clear / cancel
    hpc, hloc, calls,
    \* threads inside get_events, their arguments and replies
    ppc, pargs, reply, expired,
    \* the client that follows the stream
    cursor, delivered, dropped_seen,
    \* which threads the run has (fixed by the initial state)
    scene,
    \* SessionManager: the _sessions dict, the AgentSession objects built so
    \* far, and the threads that are inside a call of the manager
    sessions, objects, mthread,
    \* the call of read_file in progress: its arguments, the length of the
    \* file and its result
    reading,
    \* history variables: the events of each turn, in the order of their
    \* appending; the events the worker thread appended; and, in the runs with
    \* a client that reads the events, every event ever appended
    tlog, wlog, log

session_vars == <<events, last_event_id, turn_counter, busy, stopped, queue, history>>
handler_vars == <<hpc, hloc, calls>>
poll_vars == <<ppc, pargs, reply, expired>>
client_vars == <<cursor, delivered, dropped_seen>>
ghost_vars == <<tlog, wlog, log>>
manager_vars == <<sessions, objects, mthread>>
vars == <<session_vars, w, handler_vars, poll_vars, client_vars, scene,
          reading, manager_vars, ghost_vars>>

Max(a, b) == IF a >= b THEN a ELSE b
Min(a, b) == IF a <= b THEN a ELSE b
Last(s) == s[Len(s)]

\* ------------------------------------------------------------ event buffer

AgentEvent(id, type, payload, turn) ==
    [event_id |-> id, type |-> type, payload |-> payload, turn_id |-> turn]

\* a buffer that is trimmed at the wrong end: the newest events are deleted
TrimHead_DeletesNewest(evs) ==
    LET overflow == Len(evs) - MaxEvents
    IN  IF overflow > 0 THEN SubSeq(evs, 1, MaxEvents) ELSE evs

\* a buffer that is trimmed as soon as it is full: it keeps one event less
TrimHead_WhenFull(evs) ==
    LET overflow == Len(evs) - MaxEvents
    IN  IF overflow >= 0 THEN SubSeq(evs, overflow + 2, Len(evs)) ELSE evs

\* del self._events[:overflow] when the buffer is longer than max_events
TrimHead(evs) ==
    LET overflow == Len(evs) - MaxEvents
    IN  IF overflow > 0 THEN SubSeq(evs, overflow + 1, Len(evs)) ELSE evs

\* an append that notifies no waiting thread
notify_nobody(pcs) == pcs

\* notify_all: every thread blocked in Condition.wait is woken
notify_all(pcs) ==
    [p \in DOMAIN pcs |-> IF pcs[p] = "waiting" THEN "woken" ELSE pcs[p]]

\* the event types that only the worker thread appends
WorkerTypes == {"turn_started", "user", "tool_call", "tool_deduplicated",
                "tool_result", "warning", "answer", "error", "turn_finished",
                "rate_limit_retry", "rate_limit_failed"}

\* the history variables record an appended event
Record(type, payload, turn) ==
    /\ tlog' = IF turn = NoTurn THEN tlog
               ELSE [tlog EXCEPT ![turn] = Append(@, type)]
    /\ wlog' = IF type \in WorkerTypes
               THEN Append(wlog, [type |-> type, turn_id |-> turn,
                                  payload |-> payload])
               ELSE wlog
    /\ log' = IF scene.full_log
              THEN Append(log, [type |-> type, turn_id |-> turn,
                                payload |-> payload])
              ELSE log

\* AgentSession._append_event, one block under the lock
_append_event(event_type, payload, turn_id) ==
    /\ last_event_id' = last_event_id + 1
    /\ events' = TrimHead(Append(events, AgentEvent(last_event_id + 1, event_type,
                                                    payload, turn_id)))
    /\ ppc' = notify_all(ppc)
    /\ Record(event_type, payload, turn_id)

\* ------------------------------------------------------------- the worker

\* last_tool_signature = None
NoSignature == <<>>
\* no exception is being handled
NoException == [kind |-> "", message |-> <<>>, retry_in |-> <<>>]

\* the local variables of _worker_loop, _run_turn, agent_turn and
\* _call_with_retry
IdleWorker == [pc |-> "unstarted", turn_id |-> NoTurn, status |-> "none",
               tool_call_count |-> 0, raw_tool_call_count |-> 0,
               last_tool_signature |-> NoSignature, tool_result_cache |-> <<>>,
               tool_result_previews |-> <<>>,
               function_calls |-> <<>>, tool_results |-> <<>>, result |-> <<>>,
               rounds |-> 0,
               invokes |-> 0, attempt |-> 1, exception |-> NoException,
               answer |-> <<>>, cap |-> "none", hist_before |-> <<>>]

Message(role, turn) == [role |-> role, turn |-> turn]

\* AgentSession.start: the worker thread starts, session_created is appended
Start ==
    /\ w.pc = "unstarted"
    /\ w' = [w EXCEPT !.pc = "get"]
    /\ _append_event("session_created", [provider |-> scene.provider], NoTurn)
    /\ UNCHANGED <<turn_counter, busy, stopped, queue, history, handler_vars,
                   pargs, reply, expired, client_vars, scene, reading,
                   manager_vars>>

\* _worker_loop: request = self._queue.get(); the sentinel ends the loop
WorkerGet ==
    /\ w.pc = "get"
    /\ queue # <<>>
    /\ queue' = Tail(queue)
    /\ w' = IF Head(queue) = Sentinel
            THEN [w EXCEPT !.pc = "exit"]
            ELSE [IdleWorker EXCEPT !.pc = "set_busy", !.turn_id = Head(queue)]
    /\ UNCHANGED <<events, last_event_id, turn_counter, busy, stopped, history,
                   handler_vars, poll_vars, client_vars, scene, reading,
                   manager_vars, ghost_vars>>

\* a worker that enters the turn without setting the busy flag
RunSetBusy_LeavesFlag ==
    /\ w.pc = "set_busy"
    /\ ppc' = notify_all(ppc)
    /\ w' = [w EXCEPT !.pc = "emit_started"]
    /\ UNCHANGED <<events, last_event_id, turn_counter, busy, stopped, queue,
                   history, handler_vars, pargs, reply, expired, client_vars,
                   scene, reading, manager_vars, ghost_vars>>

\* _run_turn: with self._condition: self._busy = True; notify_all()
RunSetBusy ==
    /\ w.pc = "set_busy"
    /\ busy' = TRUE
    /\ ppc' = notify_all(ppc)
    /\ w' = [w EXCEPT !.pc = "emit_started"]
    /\ UNCHANGED <<events, last_event_id, turn_counter, stopped, queue, history,
                   handler_vars, pargs, reply, expired, client_vars, scene,
                   reading, manager_vars, ghost_vars>>

\* a worker step that labels its event with the id of the turn submitted
\* last instead of the id of the turn it runs
WorkerEmit_LatestTurn(from, type, payload, to) ==
    /\ w.pc = from
    /\ _append_event(type, payload, turn_counter)
    /\ w' = [w EXCEPT !.pc = to]
    /\ UNCHANGED <<turn_counter, busy, stopped, queue, history, handler_vars,
                   pargs, reply, expired, client_vars, scene, reading,
                   manager_vars>>

\* a worker step that only appends one event of the current turn
WorkerEmit(from, type, payload, to) ==
    /\ w.pc = from
    /\ _append_event(type, payload, w.turn_id)
    /\ w' = [w EXCEPT !.pc = to]
    /\ UNCHANGED <<turn_counter, busy, stopped, queue, history, handler_vars,
                   pargs, reply, expired, client_vars, scene, reading,
                   manager_vars>>

\* the user input of a turn is identified by the turn's id
EmitTurnStarted ==
    WorkerEmit("emit_started", "turn_started", [input |-> w.turn_id], "emit_user")
EmitUser == WorkerEmit("emit_user", "user", [text |-> w.turn_id], "agent_turn")

\* ------------------------------------------------------- the reasoning loop

\* the names registered in TOOL_FUNCTIONS
TOOL_FUNCTIONS == {"search_files", "read_file", "list_dir"}

\* "429" in error_msg or "RESOURCE_EXHAUSTED" in error_msg; the message of an
\* exception is a sequence of words
is_rate_limit(e) ==
    \E i \in 1..Len(e.message) : e.message[i] \in {"429", "RESOURCE_EXHAUSTED"}

\* delay: the default, or the seconds of "retry in <n>s" capped at 60;
\* retry_in is <<>> when the message has no such part
retry_delay(e) ==
    IF e.retry_in = <<>> THEN DEFAULT_RETRY_DELAY
    ELSE Min(e.retry_in[1], RetryDelayMax)

\* _append_user_message
_append_user_message(hist, turn) == Append(hist, Message("user", turn))

\* history.append(assistant_payload)
_append_assistant(hist, turn) == Append(hist, Message("assistant", turn))

\* call_id = None, and the "" that stands for it in a tool message
NoCallId == <<>>

\* _invoke_gemini, _invoke_kimi: the calls of the response as
\* FunctionCallRecords; only _invoke_kimi copies the id of the call
normalized_calls(provider, fcs) ==
    IF provider = "gemini"
    THEN [i \in 1..Len(fcs) |-> [fcs[i] EXCEPT !.call_id = NoCallId]]
    ELSE fcs

\* the assistant_payload of a response with tool calls: candidate.content
\* (gemini), or the assistant message whose tool_calls entries carry the id
\* and the name of each call as the provider returned them (kimi)
assistant_payload(provider, turn, fcs) ==
    IF provider = "gemini"
    THEN Message("assistant", turn)
    ELSE [role |-> "assistant", turn |-> turn,
          tool_calls |-> [i \in 1..Len(fcs) |->
                            [id |-> fcs[i].call_id, name |-> fcs[i].name]]]

\* _append_assistant_text: an assistant message with the given text
_append_assistant_text(hist, turn, text) ==
    Append(hist, [role |-> "assistant", turn |-> turn, content |-> text])

\* _append_tool_results: one tool message holding all results (gemini), one
\* tool message per result (kimi); a tool result is a pair <<call, result>>
_append_tool_results(provider, hist, turn, tool_results) ==
    IF provider = "gemini"
    THEN Append(hist, [role |-> "tool", turn |-> turn,
                       parts |-> [i \in 1..Len(tool_results) |->
                                     [name |-> tool_results[i][1].name,
                                      result |-> tool_results[i][2]]]])
    ELSE hist \o [i \in 1..Len(tool_results) |->
                    [role |-> "tool", turn |-> turn,
                     tool_call_id |-> tool_results[i][1].call_id,
                     content |-> tool_results[i][2]]]

\* the arguments of a call are a sequence of <<key, value>> pairs in the order
\* the model wrote them; a key is the rank of its name in sorting order
RECURSIVE SortByKey(_)
SortByKey(args) ==
    IF args = <<>> THEN <<>>
    ELSE LET least == CHOOSE i \in 1..Len(args) :
                         \A j \in 1..Len(args) : args[i][1] <= args[j][1]
         IN  <<args[least]>> \o
             SortByKey([k \in 1..Len(args) - 1 |->
                          IF k < least THEN args[k] ELSE args[k + 1]])

\* _build_tool_signature: name|json.dumps(args, sort_keys=True)
_build_tool_signature(name, args) == <<name, SortByKey(args)>>

\* _execute_tool: the result is always a string: the unknown-tool text, the
\* text of the exception the tool raised, or the text the tool returned
_execute_tool(name, args, outcome) ==
    IF name \notin TOOL_FUNCTIONS
    THEN [kind |-> "unknown_tool", of |-> <<name>>, long |-> FALSE]
    ELSE IF outcome = "raises"
    THEN [kind |-> "tool_error", of |-> <<name>>, long |-> FALSE]
    ELSE [kind |-> "value", of |-> _build_tool_signature(name, args),
          long |-> outcome = "long"]

\* result[:200] + "..." if len(result) > 200 else result
result_preview(result) == [text |-> result, cut |-> result.long]

\* response_text or the placeholder for an empty text
answer_text(response_text) ==
    IF response_text = "" THEN <<"placeholder">> ELSE <<response_text>>

\* tool_result_previews[-5:]
LastPreviews(previews) ==
    SubSeq(previews, Max(1, Len(previews) - PreviewsKept + 1), Len(previews))

\* _build_tool_cap_answer: the notice of the breached cap, the previews, the
\* guidance line; raw and raw_limit are <<>> when not given (None)
_build_tool_cap_answer(tool_call_count, max_calls, previews, raw, raw_limit) ==
    LET notice == IF raw # <<>> /\ raw_limit # <<>> /\ raw[1] >= raw_limit[1]
                  THEN <<"raw", raw[1], raw_limit[1]>>
                  ELSE <<"effective", tool_call_count, max_calls>>
    IN  <<notice>>
        \o (IF previews # <<>> THEN <<<<"summary">>>> \o previews ELSE <<>>)
        \o <<<<"guidance">>>>

\* agent_turn, lines 380-388: the user message is appended, the counters reset
AgentTurnBegin ==
    /\ w.pc = "agent_turn"
    /\ history' = _append_user_message(history, w.turn_id)
    /\ w' = [w EXCEPT !.pc = "invoke", !.status = "completed",
                      !.hist_before = history]
    /\ UNCHANGED <<events, last_event_id, turn_counter, busy, stopped, queue,
                   handler_vars, poll_vars, client_vars, scene, reading,
                   manager_vars, ghost_vars>>

\* request_fn raises inside _call_with_retry: a rate-limit error before the
\* last attempt is retried, on the last attempt it is reported and re-raised,
\* any other exception is re-raised at once and leaves agent_turn
InvokeRaises ==
    /\ w.pc = "invoke"
    /\ \E e \in scene.exceptions :
          w' = IF is_rate_limit(e) /\ w.attempt < MAX_RETRIES
               THEN [w EXCEPT !.pc = "emit_retry", !.exception = e]
               ELSE IF is_rate_limit(e)
               THEN [w EXCEPT !.pc = "emit_rate_failed", !.exception = e]
               ELSE [w EXCEPT !.pc = "rollback", !.status = "failed",
                              !.invokes = @ + 1, !.exception = e]
    /\ UNCHANGED <<session_vars, handler_vars, poll_vars, client_vars, scene,
                   reading, manager_vars, ghost_vars>>

\* a retry loop that also retries after the last attempt
EmitRateLimitRetry_Always ==
    /\ w.pc \in {"emit_retry", "emit_rate_failed"}
    /\ _append_event("rate_limit_retry",
                     [attempt |-> w.attempt,
                      delay_seconds |-> retry_delay(w.exception)], w.turn_id)
    /\ w' = [w EXCEPT !.pc = "invoke", !.attempt = @ + 1,
                      !.exception = NoException]
    /\ UNCHANGED <<turn_counter, busy, stopped, queue, history, handler_vars,
                   pargs, reply, expired, client_vars, scene, reading,
                   manager_vars>>

\* _call_with_retry, lines 99-105: rate_limit_retry is emitted, the thread
\* sleeps for the delay and the loop goes to the next attempt
EmitRateLimitRetry ==
    /\ w.pc = "emit_retry"
    /\ _append_event("rate_limit_retry",
                     [attempt |-> w.attempt,
                      delay_seconds |-> retry_delay(w.exception)], w.turn_id)
    /\ w' = [w EXCEPT !.pc = "invoke", !.attempt = @ + 1,
                      !.exception = NoException]
    /\ UNCHANGED <<turn_counter, busy, stopped, queue, history, handler_vars,
                   pargs, reply, expired, client_vars, scene, reading,
                   manager_vars>>

\* _call_with_retry, lines 106-111: rate_limit_failed is emitted and the
\* exception re-raised
EmitRateLimitFailed ==
    /\ w.pc = "emit_rate_failed"
    /\ _append_event("rate_limit_failed", [max_retries |-> MAX_RETRIES], w.turn_id)
    /\ w' = [w EXCEPT !.pc = "rollback", !.status = "failed", !.invokes = @ + 1]
    /\ UNCHANGED <<turn_counter, busy, stopped, queue, history, handler_vars,
                   pargs, reply, expired, client_vars, scene, reading,
                   manager_vars>>

\* the model answers with text and no tool call: agent_turn returns it
InvokeAnswers ==
    /\ w.pc = "invoke"
    /\ history' = _append_assistant(history, w.turn_id)
    /\ \E text \in scene.texts :
          w' = [w EXCEPT !.pc = "emit_answer", !.invokes = @ + 1,
                         !.attempt = 1, !.answer = answer_text(text)]
    /\ UNCHANGED <<events, last_event_id, turn_counter, busy, stopped, queue,
                   handler_vars, poll_vars, client_vars, scene, reading,
                   manager_vars, ghost_vars>>

\* the model answers with tool calls
InvokeCalls ==
    /\ w.pc = "invoke"
    /\ w.rounds < scene.rounds
    /\ \E fcs \in scene.responses :
          /\ w' = [w EXCEPT !.pc = "tool_call", !.invokes = @ + 1,
                            !.attempt = 1, !.rounds = @ + 1,
                            !.function_calls =
                                normalized_calls(scene.provider, fcs),
                            !.tool_results = <<>>]
          /\ history' = Append(history,
                               assistant_payload(scene.provider, w.turn_id, fcs))
    /\ UNCHANGED <<events, last_event_id, turn_counter, busy, stopped, queue,
                   handler_vars, poll_vars, client_vars, scene, reading,
                   manager_vars, ghost_vars>>

\* lines 405-406: a call of the kimi provider that has no id gets call_<n>,
\* n the count of the raw calls of the turn, this call included
with_call_id(provider, fc, raw) ==
    IF provider = "kimi" /\ fc.call_id = NoCallId
    THEN [fc EXCEPT !.call_id = <<"call_", raw>>]
    ELSE fc

\* a test that takes every call whose result is cached for a duplicate
is_cached(signature, last, cache) == signature \in DOMAIN cache

\* signature == last_tool_signature and signature in tool_result_cache
is_consecutive_duplicate(signature, last, cache) ==
    signature = last /\ signature \in DOMAIN cache

\* tool_result_cache[signature] = result
CachePut(cache, signature, result) ==
    [s \in DOMAIN cache \cup {signature} |->
        IF s = signature THEN result ELSE cache[s]]

\* a tool step that lets the failure of a tool out of agent_turn: a call of an
\* unregistered tool or of a tool that raises ends the loop with an exception
ToolCall_Propagates ==
    /\ w.pc = "tool_call"
    /\ LET fc == Head(w.function_calls)
       IN  /\ _append_event("tool_call",
                            [index |-> w.raw_tool_call_count + 1,
                             name |-> fc.name, args |-> fc.args], w.turn_id)
           /\ \E outcome \in scene.outcomes :
                 LET result == _execute_tool(fc.name, fc.args, outcome)
                 IN  w' = IF result.kind = "value"
                          THEN [w EXCEPT !.raw_tool_call_count = @ + 1,
                                         !.tool_call_count = @ + 1,
                                         !.result = result,
                                         !.pc = "emit_result"]
                          ELSE [w EXCEPT !.pc = "rollback", !.status = "failed",
                                         !.exception =
                                             [kind |-> "KeyError",
                                              message |-> <<fc.name>>,
                                              retry_in |-> <<>>]]
    /\ UNCHANGED <<turn_counter, busy, stopped, queue, history, handler_vars,
                   pargs, reply, expired, client_vars, scene, reading,
                   manager_vars>>

\* a loop that numbers a tool_call event by the count of the executed calls
\* instead of the count of the requested ones
ToolCall_EffectiveIndex ==
    /\ w.pc = "tool_call"
    /\ LET fc == Head(w.function_calls)
           signature == _build_tool_signature(fc.name, fc.args)
           dup == is_consecutive_duplicate(signature, w.last_tool_signature,
                                           w.tool_result_cache)
       IN  /\ _append_event("tool_call",
                            [index |-> w.tool_call_count + 1,
                             name |-> fc.name, args |-> fc.args], w.turn_id)
           /\ \E outcome \in scene.outcomes :
                 LET result == IF dup THEN w.tool_result_cache[signature]
                               ELSE _execute_tool(fc.name, fc.args, outcome)
                 IN  w' = [w EXCEPT
                             !.raw_tool_call_count = @ + 1,
                             !.function_calls =
                                 <<with_call_id(scene.provider, fc,
                                                w.raw_tool_call_count + 1)>>
                                     \o Tail(@),
                             !.tool_call_count = IF dup THEN @ ELSE @ + 1,
                             !.tool_result_cache =
                                 IF dup THEN @ ELSE CachePut(@, signature, result),
                             !.result = result,
                             !.pc = IF dup THEN "emit_dedup" ELSE "emit_result"]
    /\ UNCHANGED <<turn_counter, busy, stopped, queue, history, handler_vars,
                   pargs, reply, expired, client_vars, scene, reading,
                   manager_vars>>

\* lines 404-430: the call is counted, tool_call is emitted, and the tool is
\* executed unless the call repeats the one before it
ToolCall ==
    /\ w.pc = "tool_call"
    /\ LET fc == Head(w.function_calls)
           signature == _build_tool_signature(fc.name, fc.args)
           dup == is_consecutive_duplicate(signature, w.last_tool_signature,
                                           w.tool_result_cache)
       IN  /\ _append_event("tool_call",
                            [index |-> w.raw_tool_call_count + 1,
                             name |-> fc.name, args |-> fc.args], w.turn_id)
           /\ \E outcome \in scene.outcomes :
                 LET result == IF dup THEN w.tool_result_cache[signature]
                               ELSE _execute_tool(fc.name, fc.args, outcome)
                 IN  w' = [w EXCEPT
                             !.raw_tool_call_count = @ + 1,
                             !.function_calls =
                                 <<with_call_id(scene.provider, fc,
                                                w.raw_tool_call_count + 1)>>
                                     \o Tail(@),
                             !.tool_call_count = IF dup THEN @ ELSE @ + 1,
                             !.tool_result_cache =
                                 IF dup THEN @ ELSE CachePut(@, signature, result),
                             !.result = result,
                             !.pc = IF dup THEN "emit_dedup" ELSE "emit_result"]
    /\ UNCHANGED <<turn_counter, busy, stopped, queue, history, handler_vars,
                   pargs, reply, expired, client_vars, scene, reading,
                   manager_vars>>

\* a loop that emits no tool_result for a call answered from the cache
EmitDeduplicated_NoResult ==
    /\ w.pc = "emit_dedup"
    /\ _append_event("tool_deduplicated",
                     [name |-> Head(w.function_calls).name,
                      args |-> Head(w.function_calls).args], w.turn_id)
    /\ w' = [w EXCEPT
               !.function_calls = Tail(@),
               !.tool_results = Append(@, <<Head(w.function_calls), w.result>>),
               !.pc = IF Tail(w.function_calls) = <<>>
                      THEN "append_results" ELSE "tool_call"]
    /\ UNCHANGED <<turn_counter, busy, stopped, queue, history, handler_vars,
                   pargs, reply, expired, client_vars, scene, reading,
                   manager_vars>>

EmitDeduplicated ==
    WorkerEmit("emit_dedup", "tool_deduplicated",
               [name |-> Head(w.function_calls).name,
                args |-> Head(w.function_calls).args], "emit_result")

\* a loop that remembers the signature of the first call of the turn instead
\* of that of the last one
EmitToolResult_FirstSignature ==
    /\ w.pc = "emit_result"
    /\ LET fc == Head(w.function_calls)
       IN  /\ _append_event("tool_result",
                            [name |-> fc.name,
                             preview |-> result_preview(w.result)], w.turn_id)
           /\ w' = [w EXCEPT
                      !.last_tool_signature =
                          IF @ = NoSignature
                          THEN _build_tool_signature(fc.name, fc.args)
                          ELSE @,
                      !.function_calls = Tail(@),
                      !.tool_results = Append(@, <<fc, w.result>>),
                      !.tool_result_previews =
                          Append(@, <<fc.name, result_preview(w.result)>>),
                      !.pc = IF Tail(w.function_calls) = <<>>
                             THEN "append_results" ELSE "tool_call"]
    /\ UNCHANGED <<turn_counter, busy, stopped, queue, history, handler_vars,
                   pargs, reply, expired, client_vars, scene, reading,
                   manager_vars>>

\* lines 431-439: tool_result is emitted and the result recorded
EmitToolResult ==
    /\ w.pc = "emit_result"
    /\ LET fc == Head(w.function_calls)
       IN  /\ _append_event("tool_result",
                            [name |-> fc.name,
                             preview |-> result_preview(w.result)], w.turn_id)
           /\ w' = [w EXCEPT
                      !.last_tool_signature = _build_tool_signature(fc.name, fc.args),
                      !.function_calls = Tail(@),
                      !.tool_results = Append(@, <<fc, w.result>>),
                      !.tool_result_previews =
                          Append(@, <<fc.name, result_preview(w.result)>>),
                      !.pc = IF Tail(w.function_calls) = <<>>
                             THEN "append_results" ELSE "tool_call"]
    /\ UNCHANGED <<turn_counter, busy, stopped, queue, history, handler_vars,
                   pargs, reply, expired, client_vars, scene, reading,
                   manager_vars>>

\* a loop that tests the cap of the raw requests before the other cap
AppendToolResults_RawFirst ==
    /\ w.pc = "append_results"
    /\ history' = _append_tool_results(scene.provider, history, w.turn_id,
                                       w.tool_results)
    /\ w' = [w EXCEPT
               !.cap = IF w.raw_tool_call_count >= MAX_RAW_TOOL_CALLS_PER_TURN
                       THEN "raw"
                       ELSE IF w.tool_call_count >= MAX_TOOL_CALLS_PER_TURN
                       THEN "effective" ELSE "none",
               !.pc = IF \/ w.tool_call_count >= MAX_TOOL_CALLS_PER_TURN
                         \/ w.raw_tool_call_count >= MAX_RAW_TOOL_CALLS_PER_TURN
                      THEN "emit_warning" ELSE "invoke"]
    /\ UNCHANGED <<events, last_event_id, turn_counter, busy, stopped, queue,
                   handler_vars, poll_vars, client_vars, scene, reading,
                   manager_vars, ghost_vars>>

\* lines 441-457: the results go to history, then the two caps are tested
AppendToolResults ==
    /\ w.pc = "append_results"
    /\ history' = _append_tool_results(scene.provider, history, w.turn_id,
                                       w.tool_results)
    /\ w' = [w EXCEPT
               !.cap = IF w.tool_call_count >= MAX_TOOL_CALLS_PER_TURN
                       THEN "effective"
                       ELSE IF w.raw_tool_call_count >= MAX_RAW_TOOL_CALLS_PER_TURN
                       THEN "raw" ELSE "none",
               !.pc = IF \/ w.tool_call_count >= MAX_TOOL_CALLS_PER_TURN
                         \/ w.raw_tool_call_count >= MAX_RAW_TOOL_CALLS_PER_TURN
                      THEN "emit_warning" ELSE "invoke"]
    /\ UNCHANGED <<events, last_event_id, turn_counter, busy, stopped, queue,
                   handler_vars, poll_vars, client_vars, scene, reading,
                   manager_vars, ghost_vars>>

\* a loop that goes on to the next model invocation after a cap is breached
EmitWarning_GoesOn ==
    WorkerEmit("emit_warning", "warning", [message |-> <<w.cap>>], "invoke")

\* lines 444-448 and 458-467: the warning of the breached cap
EmitWarning ==
    WorkerEmit("emit_warning", "warning",
               [message |-> IF w.cap = "effective"
                            THEN <<"effective", MAX_TOOL_CALLS_PER_TURN>>
                            ELSE <<"raw", w.raw_tool_call_count,
                                   MAX_RAW_TOOL_CALLS_PER_TURN>>],
               "append_local")

\* lines 449-455 and 468-476: local_answer = _build_tool_cap_answer(...);
\* _append_assistant_text(local_answer); return local_answer
AppendLocalAnswer ==
    /\ w.pc = "append_local"
    /\ LET local_answer ==
               IF w.cap = "effective"
               THEN _build_tool_cap_answer(w.tool_call_count,
                        MAX_TOOL_CALLS_PER_TURN,
                        LastPreviews(w.tool_result_previews), <<>>, <<>>)
               ELSE _build_tool_cap_answer(w.tool_call_count,
                        MAX_TOOL_CALLS_PER_TURN,
                        LastPreviews(w.tool_result_previews),
                        <<w.raw_tool_call_count>>,
                        <<MAX_RAW_TOOL_CALLS_PER_TURN>>)
       IN  /\ history' = _append_assistant_text(history, w.turn_id, local_answer)
           /\ w' = [w EXCEPT !.pc = "emit_answer", !.answer = local_answer]
    /\ UNCHANGED <<events, last_event_id, turn_counter, busy, stopped, queue,
                   handler_vars, poll_vars, client_vars, scene, reading,
                   manager_vars, ghost_vars>>

\* --------------------------------------------------- the end of _run_turn

EmitAnswer == WorkerEmit("emit_answer", "answer", [text |-> w.answer], "reset_busy")

\* a rollback that leaves the history as it is
_rollback_keeps_message(hist) == hist

\* _rollback_last_user_message: pop the last message when its role is user
_rollback_last_user_message(hist) ==
    IF hist = <<>> THEN hist
    ELSE IF Last(hist).role = "user" THEN SubSeq(hist, 1, Len(hist) - 1)
    ELSE hist

Rollback ==
    /\ w.pc = "rollback"
    /\ history' = _rollback_last_user_message(history)
    /\ w' = [w EXCEPT !.pc = "emit_error"]
    /\ UNCHANGED <<events, last_event_id, turn_counter, busy, stopped, queue,
                   handler_vars, poll_vars, client_vars, scene, reading,
                   manager_vars, ghost_vars>>

\* an except branch that appends no error event
EmitError_NoEvent ==
    /\ w.pc = "emit_error"
    /\ w' = [w EXCEPT !.pc = "reset_busy"]
    /\ UNCHANGED <<session_vars, handler_vars, poll_vars, client_vars, scene,
                   reading, manager_vars, ghost_vars>>

\* f"{type(e).__name__}: {e}"
error_message(e) == <<e.kind, ":">> \o e.message

\* _run_turn, lines 209-213: the error event is appended
EmitError ==
    WorkerEmit("emit_error", "error", [message |-> error_message(w.exception)],
               "reset_busy")

\* finally: with self._condition: self._busy = False; notify_all()
ResetBusy ==
    /\ w.pc = "reset_busy"
    /\ busy' = FALSE
    /\ ppc' = notify_all(ppc)
    /\ w' = [w EXCEPT !.pc = "emit_finished"]
    /\ UNCHANGED <<events, last_event_id, turn_counter, stopped, queue, history,
                   handler_vars, pargs, reply, expired, client_vars, scene,
                   reading, manager_vars, ghost_vars>>

\* a worker thread that ends after a failed turn
EmitTurnFinished_DiesOnFailure ==
    /\ w.pc = "emit_finished"
    /\ _append_event("turn_finished", [status |-> w.status], w.turn_id)
    /\ w' = [IdleWorker EXCEPT !.pc = IF w.status = "failed" THEN "exit" ELSE "get"]
    /\ UNCHANGED <<turn_counter, busy, stopped, queue, history, handler_vars,
                   pargs, reply, expired, client_vars, scene, reading,
                   manager_vars>>

\* turn_finished is appended; _run_turn returns (its local variables are
\* gone) and _worker_loop goes back to the queue
EmitTurnFinished ==
    /\ w.pc = "emit_finished"
    /\ _append_event("turn_finished", [status |-> w.status], w.turn_id)
    /\ w' = [IdleWorker EXCEPT !.pc = "get"]
    /\ UNCHANGED <<turn_counter, busy, stopped, queue, history, handler_vars,
                   pargs, reply, expired, client_vars, scene, reading,
                   manager_vars>>

\* ----------------------------------------------------- HTTP handler threads

\* AgentDaemonHandler._check_auth: no token, or an empty one, lets every
\* request pass; else the X-Agent-Token header, "" when it is missing, must
\* equal the token. A token and a header are <<>> when absent, else <<text>>
_check_auth(token, header) ==
    LET incoming == IF header = <<>> THEN "" ELSE header[1]
    IN  IF token = <<>> \/ token[1] = "" THEN TRUE ELSE incoming = token[1]

\* a check that only asks for the header to be present
Authorized_AnyHeader == {header \in scene.headers : header # <<>>}

\* the headers of the run that pass the check of the token
Authorized == {header \in scene.headers : _check_auth(scene.auth_token, header)}

\* do_GET / do_POST, first statement: a request whose token check fails is
\* answered 401 by _check_auth and the handler returns
Unauthorized(h) ==
    /\ h \in scene.handlers
    /\ hpc[h] = "idle"
    /\ \E header \in scene.headers \ Authorized :
          hloc' = [hloc EXCEPT ![h].http = 401, ![h].header = header]
    /\ hpc' = [hpc EXCEPT ![h] = "unauthorized"]
    /\ UNCHANGED <<session_vars, w, calls, poll_vars, client_vars, scene,
                   reading, manager_vars, ghost_vars>>

\* the local variables of a handler thread that serves no request. Three
\* fields are bookkeeping of the run: quiet says that the call began in the
\* situation a property is about and that no submit_turn acted since, queued
\* are the turns in the queue when the call began, removed the turns it took
NoLocals == [turn_id |-> 0, dropped |-> 0, running |-> FALSE, ok |-> FALSE,
             http |-> 0, header |-> <<>>, quiet |-> FALSE, removed |-> {},
             queued |-> {},
             status |-> [busy |-> FALSE, last_event_id |-> 0, last_turn_id |-> 0,
                         history_size |-> 0, pending_count |-> 0]]

\* a handler thread is free to serve a request of the kind op; requests reach
\* the session only after start() has returned
HandlerReady(h, op) ==
    /\ h \in scene.handlers
    /\ op \in scene.ops
    /\ hpc[h] = "idle"
    /\ w.pc # "unstarted"

\* the session is idle: the worker waits on an empty queue, no turn runs and
\* no handler thread is inside a call
IdleSession ==
    /\ w.pc = "get"
    /\ queue = <<>>
    /\ ~busy
    /\ \A h \in Handlers : hpc[h] = "idle"

\* the turn ids in a queue
QueuedTurns(q) == {q[i] : i \in 1..Len(q)} \ {Sentinel}

\* str.strip(): leading and trailing whitespace is removed; a text is the
\* sequence of its characters
RECURSIVE strip(_)
strip(text) ==
    LET whitespace == {" ", "\t", "\n"}
    IN  IF text = <<>> THEN text
        ELSE IF Head(text) \in whitespace THEN strip(Tail(text))
        ELSE IF Last(text) \in whitespace
        THEN strip(SubSeq(text, 1, Len(text) - 1))
        ELSE text

\* the "input" field of a request body is a string whose stripped text is
\* not empty: do_POST line 99 and submit_turn lines 77-78 let it pass
AcceptsInput(input) == input.is_str /\ strip(input.text) # <<>>

\* a submission that hands out the id of a concurrent submission: the
\* counter is not incremented while another submission is in progress
SubmitTurn_LostUpdate(h) ==
    /\ HandlerReady(h, "submit")
    /\ turn_counter < scene.turns
    /\ \E input \in scene.inputs : AcceptsInput(input)
    /\ turn_counter' =
          IF \E g \in Handlers \ {h} : hpc[g] \in {"submit_put", "submit_emit"}
          THEN turn_counter ELSE turn_counter + 1
    /\ \E header \in Authorized :
          hloc' = [hloc EXCEPT ![h].turn_id = turn_counter', ![h].header = header]
    /\ hpc' = [hpc EXCEPT ![h] = "submit_put"]
    /\ UNCHANGED <<events, last_event_id, busy, stopped, queue, history, w,
                   calls, poll_vars, client_vars, scene, reading, manager_vars,
                   ghost_vars>>

\* POST /turns with an input that is no string (do_POST lines 99-101) or
\* that is empty once stripped (submit_turn lines 77-79, the ValueError
\* caught at do_POST line 127): the reply is 400
SubmitRejected(h) ==
    /\ HandlerReady(h, "submit")
    /\ \E input \in scene.inputs : ~AcceptsInput(input)
    /\ hpc' = [hpc EXCEPT ![h] = "submit_rejected"]
    /\ \E header \in Authorized :
          hloc' = [hloc EXCEPT ![h].http = 400, ![h].header = header]
    /\ UNCHANGED <<session_vars, w, calls, poll_vars, client_vars, scene,
                   reading, manager_vars, ghost_vars>>

\* submit_turn, lines 81-83: the turn id is taken under the lock
SubmitTurn(h) ==
    /\ HandlerReady(h, "submit")
    /\ turn_counter < scene.turns
    /\ \E input \in scene.inputs : AcceptsInput(input)
    /\ turn_counter' = turn_counter + 1
    /\ \E header \in Authorized :
          hloc' = [g \in Handlers |->
                      IF g = h THEN [hloc[g] EXCEPT !.turn_id = turn_counter + 1,
                                                    !.header = header]
                      ELSE [hloc[g] EXCEPT !.quiet = FALSE]]
    /\ hpc' = [hpc EXCEPT ![h] = "submit_put"]
    /\ calls' = [calls EXCEPT !.idle_clear = FALSE]
    /\ UNCHANGED <<events, last_event_id, busy, stopped, queue, history, w,
                   poll_vars, client_vars, scene, reading, manager_vars,
                   ghost_vars>>

\* submit_turn, lines 85-86: self._queue.put(request), outside the lock
SubmitPut(h) ==
    /\ hpc[h] = "submit_put"
    /\ queue' = Append(queue, hloc[h].turn_id)
    /\ hpc' = [hpc EXCEPT ![h] = "submit_emit"]
    /\ hloc' = [g \in Handlers |-> [hloc[g] EXCEPT !.quiet = FALSE]]
    /\ calls' = [calls EXCEPT !.drained = FALSE, !.idle_clear = FALSE]
    /\ UNCHANGED <<events, last_event_id, turn_counter, busy, stopped, history,
                   w, poll_vars, client_vars, scene, reading, manager_vars,
                   ghost_vars>>

\* submit_turn, lines 87-92: turn_enqueued is appended, the id returned
SubmitEmit(h) ==
    /\ hpc[h] = "submit_emit"
    /\ _append_event("turn_enqueued", [queue_size |-> Len(queue)],
                     hloc[h].turn_id)
    /\ hpc' = [hpc EXCEPT ![h] = "idle"]
    /\ hloc' = [hloc EXCEPT ![h] = NoLocals]
    /\ UNCHANGED <<turn_counter, busy, stopped, queue, history, w, calls, pargs,
                   reply, expired, client_vars, scene, reading, manager_vars>>

\* clear() is called
Clear(h) ==
    /\ HandlerReady(h, "clear")
    /\ calls.clear < MaxClears
    /\ calls' = [calls EXCEPT !.clear = @ + 1]
    /\ \E header \in Authorized :
          hloc' = [hloc EXCEPT ![h].dropped = 0, ![h].quiet = IdleSession,
                               ![h].header = header]
    /\ hpc' = [hpc EXCEPT ![h] = "clear_drain"]
    /\ UNCHANGED <<session_vars, w, poll_vars, client_vars, scene, reading,
                   manager_vars, ghost_vars>>

\* cancel() is called
Cancel(h) ==
    /\ HandlerReady(h, "cancel")
    /\ calls.cancel < MaxCancels
    /\ calls' = [calls EXCEPT !.cancel = @ + 1]
    /\ \E header \in Authorized :
          hloc' = [hloc EXCEPT ![h].dropped = 0, ![h].quiet = calls.drained,
                               ![h].queued = QueuedTurns(queue),
                               ![h].header = header]
    /\ hpc' = [hpc EXCEPT ![h] = "cancel_drain"]
    /\ UNCHANGED <<session_vars, w, poll_vars, client_vars, scene, reading,
                   manager_vars, ghost_vars>>

\* a drain that reads the head of the queue and counts it without taking it
\* out when the worker is idle: the turn is counted and still started
DropPending_CountsUntaken(h) ==
    /\ hpc[h] \in {"clear_drain", "cancel_drain"}
    /\ IF queue = <<>> \/ hloc[h].dropped > 0
       THEN /\ hpc' = [hpc EXCEPT ![h] = IF hpc[h] = "clear_drain"
                                         THEN "clear_check" ELSE "cancel_snapshot"]
            /\ UNCHANGED <<hloc, calls>>
       ELSE /\ hloc' = [hloc EXCEPT ![h].dropped = @ + 1]
            /\ UNCHANGED <<hpc, calls>>
    /\ UNCHANGED <<events, last_event_id, turn_counter, busy, stopped, queue,
                   history, w, poll_vars, client_vars, scene, reading,
                   manager_vars, ghost_vars>>

\* a drain that leaves the queue as it is while a turn is running
DropPending_NotWhileBusy(h) ==
    /\ hpc[h] \in {"clear_drain", "cancel_drain"}
    /\ IF queue = <<>> \/ busy
       THEN /\ hpc' = [hpc EXCEPT ![h] = IF hpc[h] = "clear_drain"
                                         THEN "clear_check" ELSE "cancel_snapshot"]
            /\ calls' = [calls EXCEPT !.drained =
                            IF hpc[h] = "cancel_drain" THEN TRUE ELSE @]
            /\ UNCHANGED <<queue, hloc>>
       ELSE IF Head(queue) = Sentinel
       THEN /\ queue' = Tail(queue)
            /\ hpc' = [hpc EXCEPT ![h] = IF hpc[h] = "clear_drain"
                                         THEN "clear_putback" ELSE "cancel_putback"]
            /\ UNCHANGED <<hloc, calls>>
       ELSE /\ queue' = Tail(queue)
            /\ hloc' = [hloc EXCEPT ![h].dropped = @ + 1,
                                    ![h].removed = @ \cup {Head(queue)}]
            /\ calls' = [calls EXCEPT !.removed = Append(@, Head(queue))]
            /\ UNCHANGED hpc
    /\ UNCHANGED <<events, last_event_id, turn_counter, busy, stopped, history,
                   w, poll_vars, client_vars, scene, reading, manager_vars,
                   ghost_vars>>

\* _drop_pending_turns: one self._queue.get_nowait(): queue.Empty ends the
\* loop, a turn is counted, the stop sentinel is to be put back
DropPending(h) ==
    /\ hpc[h] \in {"clear_drain", "cancel_drain"}
    /\ IF queue = <<>>
       THEN /\ hpc' = [hpc EXCEPT ![h] = IF hpc[h] = "clear_drain"
                                         THEN "clear_check" ELSE "cancel_snapshot"]
            /\ calls' = [calls EXCEPT !.drained =
                            IF hpc[h] = "cancel_drain" THEN TRUE ELSE @]
            /\ UNCHANGED <<queue, hloc>>
       ELSE IF Head(queue) = Sentinel
       THEN /\ queue' = Tail(queue)
            /\ hpc' = [hpc EXCEPT ![h] = IF hpc[h] = "clear_drain"
                                         THEN "clear_putback" ELSE "cancel_putback"]
            /\ UNCHANGED <<hloc, calls>>
       ELSE /\ queue' = Tail(queue)
            /\ hloc' = [hloc EXCEPT ![h].dropped = @ + 1,
                                    ![h].removed = @ \cup {Head(queue)}]
            /\ calls' = [calls EXCEPT !.removed = Append(@, Head(queue))]
            /\ UNCHANGED hpc
    /\ UNCHANGED <<events, last_event_id, turn_counter, busy, stopped, history,
                   w, poll_vars, client_vars, scene, reading, manager_vars,
                   ghost_vars>>

\* _drop_pending_turns, lines 237-241: self._queue.put(None), then break
PutBackSentinel(h) ==
    /\ hpc[h] \in {"clear_putback", "cancel_putback"}
    /\ queue' = Append(queue, Sentinel)
    /\ hpc' = [hpc EXCEPT ![h] = IF hpc[h] = "clear_putback"
                                 THEN "clear_check" ELSE "cancel_snapshot"]
    /\ calls' = [calls EXCEPT !.drained =
                    IF hpc[h] = "cancel_putback" THEN TRUE ELSE @]
    /\ UNCHANGED <<events, last_event_id, turn_counter, busy, stopped, history,
                   w, hloc, poll_vars, client_vars, scene, reading,
                   manager_vars, ghost_vars>>

\* a clear that reports success and leaves the history as it is
ClearCheck_KeepsHistory(h) ==
    /\ hpc[h] = "clear_check"
    /\ IF busy
       THEN /\ hpc' = [hpc EXCEPT ![h] = "clear_return"]
            /\ hloc' = [hloc EXCEPT ![h].ok = FALSE]
       ELSE /\ hpc' = [hpc EXCEPT ![h] = "clear_emit"]
            /\ UNCHANGED hloc
    /\ UNCHANGED <<events, last_event_id, turn_counter, busy, stopped, queue,
                   history, w, calls, poll_vars, client_vars, scene, reading,
                   manager_vars, ghost_vars>>

\* a clear that empties the history without looking at the busy flag
ClearCheck_IgnoresBusy(h) ==
    /\ hpc[h] = "clear_check"
    /\ hpc' = [hpc EXCEPT ![h] = "clear_emit"]
    /\ history' = <<>>
    /\ UNCHANGED <<events, last_event_id, turn_counter, busy, stopped, queue,
                   w, hloc, calls, poll_vars, client_vars, scene, reading,
                   manager_vars, ghost_vars>>

\* clear, lines 97-100: under the lock, refuse when busy, else empty history
ClearCheck(h) ==
    /\ hpc[h] = "clear_check"
    /\ IF busy
       THEN /\ hpc' = [hpc EXCEPT ![h] = "clear_return"]
            /\ hloc' = [hloc EXCEPT ![h].ok = FALSE]
            /\ UNCHANGED history
       ELSE /\ hpc' = [hpc EXCEPT ![h] = "clear_emit"]
            /\ history' = <<>>
            /\ UNCHANGED hloc
    /\ UNCHANGED <<events, last_event_id, turn_counter, busy, stopped, queue, w,
                   calls, poll_vars, client_vars, scene, reading, manager_vars,
                   ghost_vars>>

\* clear, lines 101-106: session_cleared is appended, (True, message) returned
ClearEmit(h) ==
    /\ hpc[h] = "clear_emit"
    /\ _append_event("session_cleared", [dropped_pending |-> hloc[h].dropped],
                     NoTurn)
    /\ hpc' = [hpc EXCEPT ![h] = "clear_return"]
    /\ hloc' = [hloc EXCEPT ![h].ok = TRUE]
    /\ UNCHANGED <<turn_counter, busy, stopped, queue, history, w, calls, pargs,
                   reply, expired, client_vars, scene, reading, manager_vars>>

\* a cancel that aborts the turn in flight: the worker drops the turn and
\* goes back to the queue
CancelSnapshot_Aborts(h) ==
    /\ hpc[h] = "cancel_snapshot"
    /\ hloc' = [hloc EXCEPT ![h].running = busy]
    /\ hpc' = [hpc EXCEPT ![h] = "cancel_emit"]
    /\ busy' = FALSE
    /\ w' = IF busy /\ w.pc \notin {"unstarted", "get", "set_busy", "exit"}
            THEN [IdleWorker EXCEPT !.pc = "get"] ELSE w
    /\ UNCHANGED <<events, last_event_id, turn_counter, stopped, queue, history,
                   calls, poll_vars, client_vars, scene, reading, manager_vars,
                   ghost_vars>>

\* cancel, lines 115-116: running = self._busy under the lock
CancelSnapshot(h) ==
    /\ hpc[h] = "cancel_snapshot"
    /\ hloc' = [hloc EXCEPT ![h].running = busy]
    /\ hpc' = [hpc EXCEPT ![h] = "cancel_emit"]
    /\ UNCHANGED <<session_vars, w, calls, poll_vars, client_vars, scene,
                   reading, manager_vars, ghost_vars>>

\* cancel, lines 117-123: the result
CancelResult(h) ==
    [running |-> hloc[h].running, dropped_pending |-> hloc[h].dropped,
     hard_cancel_supported |-> FALSE]

\* cancel, lines 122-123: cancel_requested is appended, the result returned
CancelEmit(h) ==
    /\ hpc[h] = "cancel_emit"
    /\ _append_event("cancel_requested", CancelResult(h), NoTurn)
    /\ hpc' = [hpc EXCEPT ![h] = "cancel_return"]
    /\ UNCHANGED <<turn_counter, busy, stopped, queue, history, w, hloc, calls,
                   pargs, reply, expired, client_vars, scene, reading,
                   manager_vars>>

\* get_status, lines 127-131: the fields read under the lock
Status(h) ==
    /\ HandlerReady(h, "status")
    /\ calls.status < MaxStatus
    /\ calls' = [calls EXCEPT !.status = @ + 1]
    /\ \E header \in Authorized :
          hloc' = [hloc EXCEPT ![h].quiet = calls.idle_clear,
                               ![h].header = header,
                               ![h].status =
                                   [busy |-> busy, last_event_id |-> last_event_id,
                                    last_turn_id |-> turn_counter,
                                    history_size |-> Len(history),
                                    pending_count |-> 0]]
    /\ hpc' = [hpc EXCEPT ![h] = "status_qsize"]
    /\ UNCHANGED <<session_vars, w, poll_vars, client_vars, scene, reading,
                   manager_vars, ghost_vars>>

\* get_status, line 138: pending_count = self._queue.qsize(), outside the lock
StatusQsize(h) ==
    /\ hpc[h] = "status_qsize"
    /\ hloc' = [hloc EXCEPT ![h].status.pending_count = Len(queue)]
    /\ hpc' = [hpc EXCEPT ![h] = "status_return"]
    /\ UNCHANGED <<session_vars, w, calls, poll_vars, client_vars, scene,
                   reading, manager_vars, ghost_vars>>

\* the HTTP status of the reply to POST /clear: 200, or 409 when refused
ClearHttpStatus(ok) == IF ok THEN 200 ELSE 409

\* do_GET / do_POST send the reply of clear, cancel or status, the 400 of a
\* rejected submission or the 401 of a failed check of the token; the thread
\* is free again
Return(h) ==
    /\ hpc[h] \in {"clear_return", "cancel_return", "status_return",
                  "submit_rejected", "unauthorized"}
    /\ hpc' = [hpc EXCEPT ![h] = "idle"]
    /\ hloc' = [hloc EXCEPT ![h] = NoLocals]
    /\ calls' = [calls EXCEPT !.idle_clear =
                    IF hpc[h] = "clear_return"
                    THEN hloc[h].ok /\ hloc[h].quiet ELSE @]
    /\ UNCHANGED <<session_vars, w, poll_vars, client_vars, scene, reading,
                   manager_vars, ghost_vars>>

\* AgentSession.stop: the flag is set and the sentinel posted; the join that
\* follows only waits
Stop ==
    /\ "stop" \in scene.ops
    /\ w.pc # "unstarted"
    /\ ~stopped
    /\ stopped' = TRUE
    /\ queue' = Append(queue, Sentinel)
    /\ UNCHANGED <<events, last_event_id, turn_counter, busy, history, w,
                   handler_vars, poll_vars, client_vars, scene, reading,
                   manager_vars, ghost_vars>>

\* ------------------------------------------------------------ get_events

\* a query parameter: <<>> when absent or not a number, else <<value>>
\* app.py _to_int
_to_int(value, default, min_value, max_value) ==
    IF value = <<>> THEN default
    ELSE Max(min_value, Min(max_value, value[1]))

\* a filter that also lets the event with event_id = after through
EventsAfter_Inclusive(after) == SelectSeq(events, LAMBDA e : e.event_id >= after)

\* the events of the buffer with event_id > after
EventsAfter(after) == SelectSeq(events, LAMBDA e : e.event_id > after)

\* events = events[:limit] when limit > 0
Truncate(evs, limit) ==
    IF limit > 0 THEN SubSeq(evs, 1, Min(limit, Len(evs))) ELSE evs

\* self._events[0].event_id if self._events else self._last_event_id + 1
oldest_event_id ==
    IF events # <<>> THEN events[1].event_id ELSE last_event_id + 1

\* a count of the dropped events that is one too large
dropped_events_OneMore(after) == Max(0, oldest_event_id - after)

\* max(0, oldest_event_id - after - 1)
dropped_events(after) == Max(0, oldest_event_id - after - 1)

\* get_events, lines 156-168: the reply, computed under the lock
GetEventsReply(after, limit) ==
    [events |-> Truncate(EventsAfter(after), limit),
     last_event_id |-> last_event_id,
     oldest_event_id |-> oldest_event_id,
     dropped_events |-> dropped_events(after)]

\* the loop condition of get_events, lines 150-153: wait again
MustWait(p) ==
    /\ last_event_id <= pargs[p].after
    /\ pargs[p].wait_ms > 0
    /\ ~expired[p]

\* do_GET /sessions/{id}/events: the query parameters are parsed and clamped
\* and get_events is entered (the deadline is set)
PollCall(p) ==
    /\ p \in scene.pollers
    /\ p = "poller"
    /\ ppc[p] \in {"idle", "done"}
    /\ w.pc # "unstarted"
    /\ \E after \in {<<>>} \cup {<<v>> : v \in -1..MaxAfter},
          wait_ms \in {<<>>, <<ClientWaitMs>>},
          limit \in {<<>>} \cup {<<v>> : v \in 0..MaxLimit} :
          pargs' = [pargs EXCEPT ![p] =
                      [after |-> _to_int(after, 0, 0, AfterMax),
                       wait_ms |-> _to_int(wait_ms, 0, 0, WaitMsMax),
                       limit |-> _to_int(limit, LimitDefault, 1, LimitMax)]]
    /\ ppc' = [ppc EXCEPT ![p] = "called"]
    /\ expired' = [expired EXCEPT ![p] = FALSE]
    /\ UNCHANGED <<session_vars, w, handler_vars, reply, client_vars, scene,
                   reading, manager_vars, ghost_vars>>

\* get_events holds the lock: it waits on the condition (releasing the lock)
\* or computes its reply and returns
GetEvents(p) ==
    /\ ppc[p] \in {"called", "woken"}
    /\ IF MustWait(p)
       THEN /\ ppc' = [ppc EXCEPT ![p] = "waiting"]
            /\ UNCHANGED reply
       ELSE /\ ppc' = [ppc EXCEPT ![p] = "done"]
            /\ reply' = [reply EXCEPT ![p] =
                           GetEventsReply(pargs[p].after, pargs[p].limit)]
    /\ UNCHANGED <<session_vars, w, handler_vars, pargs, expired, client_vars,
                   scene, reading, manager_vars, ghost_vars>>

\* time passes the deadline of a call with wait_ms > 0; a wait on the
\* condition times out
DeadlinePasses(p) ==
    /\ ppc[p] \in {"called", "waiting", "woken"}
    /\ pargs[p].wait_ms > 0
    /\ ~expired[p]
    /\ expired' = [expired EXCEPT ![p] = TRUE]
    /\ ppc' = [ppc EXCEPT ![p] = IF @ = "waiting" THEN "woken" ELSE @]
    /\ UNCHANGED <<session_vars, w, handler_vars, pargs, reply, client_vars,
                   scene, reading, manager_vars, ghost_vars>>

\* ------------------------------------------------- the following client

\* run_remote_cli / _poll_events: get_events(after=cursor, wait_ms=1000,
\* limit=...) through RemoteAgentClient.get_events and do_GET
FollowCall(p) ==
    /\ p \in scene.pollers
    /\ p = "follower"
    /\ ppc[p] = "idle"
    /\ w.pc # "unstarted"
    /\ pargs' = [pargs EXCEPT ![p] =
                   [after |-> _to_int(<<Max(cursor, 0)>>, 0, 0, AfterMax),
                    wait_ms |-> _to_int(<<Max(ClientWaitMs, 0)>>, 0, 0, WaitMsMax),
                    limit |-> _to_int(<<Max(ClientLimit, 1)>>, LimitDefault, 1,
                                      LimitMax)]]
    /\ ppc' = [ppc EXCEPT ![p] = "called"]
    /\ expired' = [expired EXCEPT ![p] = FALSE]
    /\ UNCHANGED <<session_vars, w, handler_vars, reply, client_vars, scene,
                   reading, manager_vars, ghost_vars>>

\* the event ids a reply counts as dropped: the dropped_events ids after "after"
DroppedIds(after, r) == (after + 1)..(after + r.dropped_events)

\* the client takes the reply: it renders the events and moves its cursor to
\* the reply's last_event_id
FollowReceive(p) ==
    /\ p = "follower"
    /\ ppc[p] = "done"
    /\ cursor' = reply[p].last_event_id
    /\ delivered' = delivered \o [i \in 1..Len(reply[p].events) |->
                                    reply[p].events[i].event_id]
    /\ dropped_seen' = dropped_seen \cup DroppedIds(pargs[p].after, reply[p])
    /\ ppc' = [ppc EXCEPT ![p] = "idle"]
    /\ UNCHANGED <<session_vars, w, handler_vars, pargs, reply, expired, scene,
                   reading, manager_vars, ghost_vars>>

\* ----------------------------------------------------------- SessionManager

\* the handler threads that call the manager, and the thread of
\* run_agent_daemon that calls stop_all when the server shuts down
Callers == {"c1", "c2"}
MainThread == "main"
\* the session ids that requests name
SessionIds == {"a", "b"}
\* the placeholder of an id that is being created (None)
NoSession == 0
\* the AgentSession objects that are constructed in a run
MaxSessions == 3

\* the exception a failing create raises: create_client and build_tools fail
\* with ValueError or ImportError, Thread.start with RuntimeError
BuildFailures == {"ValueError", "ImportError"}
StartFailure == "RuntimeError"

\* the local variables of a thread that is in no call of the manager; late is
\* bookkeeping of the run: the create was called after stop_all had begun
IdleCaller == [pc |-> "idle", op |-> "none", id |-> "", session |-> NoSession,
               exception |-> "", found |-> {}, http |-> 0, header |-> <<>>,
               late |-> FALSE]

\* do_GET / do_POST: KeyError is answered 404, ValueError 400, any other
\* exception 500
error_status(exception) ==
    IF exception = "KeyError" THEN 404
    ELSE IF exception = "ValueError" THEN 400 ELSE 500

\* the sessions of the dict that are no placeholder
Initialized(dict) == {dict[i] : i \in DOMAIN dict} \ {NoSession}

\* a create that reserves nothing: the id is tested and no placeholder set
CreateReserve_NoPlaceholder(c, id) ==
    /\ mthread[c].pc = "idle"
    /\ id \in DOMAIN sessions \/ Len(objects) < MaxSessions
    /\ \E header \in Authorized :
          IF id \in DOMAIN sessions
          THEN mthread' = [mthread EXCEPT ![c] =
                              [IdleCaller EXCEPT !.header = header,
                                                 !.pc = "return", !.op = "create",
                                                 !.id = id,
                                                 !.exception = "ValueError",
                                                 !.http = 400]]
          ELSE mthread' = [mthread EXCEPT ![c] =
                              [IdleCaller EXCEPT
                                  !.header = header,
                                  !.pc = "create_build", !.op = "create", !.id = id,
                                  !.late = mthread[MainThread].pc # "idle"]]
    /\ UNCHANGED <<session_vars, w, handler_vars, poll_vars, client_vars, scene,
                   reading, sessions, objects, ghost_vars>>

\* create_session, lines 277-281: under the lock a known id raises
\* ValueError (do_POST answers 400), a new id gets the placeholder
CreateReserve(c, id) ==
    /\ mthread[c].pc = "idle"
    /\ id \in DOMAIN sessions \/ Len(objects) < MaxSessions
    /\ \E header \in Authorized :
          IF id \in DOMAIN sessions
          THEN /\ mthread' = [mthread EXCEPT ![c] =
                                 [IdleCaller EXCEPT !.header = header,
                                                    !.pc = "return", !.op = "create",
                                                    !.id = id,
                                                    !.exception = "ValueError",
                                                    !.http = 400]]
               /\ UNCHANGED sessions
          ELSE /\ sessions' = [i \in DOMAIN sessions \cup {id} |->
                                  IF i = id THEN NoSession ELSE sessions[i]]
               /\ mthread' = [mthread EXCEPT ![c] =
                                 [IdleCaller EXCEPT
                                     !.header = header,
                                     !.pc = "create_build", !.op = "create",
                                     !.id = id,
                                     !.late = mthread[MainThread].pc # "idle"]]
    /\ UNCHANGED <<session_vars, w, handler_vars, poll_vars, client_vars, scene,
                   reading, objects, ghost_vars>>

\* a create that publishes the session as soon as it is constructed, before
\* it is started
CreateBuild_PublishesEarly(c) ==
    /\ mthread[c].pc = "create_build"
    /\ objects' = Append(objects,
                         [session_id |-> mthread[c].id,
                          worker_started |-> FALSE, events |-> <<>>,
                          stopped |-> FALSE, published |-> FALSE,
                          late |-> mthread[c].late])
    /\ sessions' = [sessions EXCEPT ![mthread[c].id] = Len(objects) + 1]
    /\ mthread' = [mthread EXCEPT ![c].pc = "create_start",
                                  ![c].session = Len(objects) + 1]
    /\ UNCHANGED <<session_vars, w, handler_vars, poll_vars, client_vars, scene,
                   reading, ghost_vars>>

\* create_session, lines 284-291: the runtime, the tools and the AgentSession
\* are built, or one of the calls raises
CreateBuild(c) ==
    /\ mthread[c].pc = "create_build"
    /\ \/ \E e \in BuildFailures :
             /\ mthread' = [mthread EXCEPT ![c].pc = "create_cleanup",
                                           ![c].exception = e]
             /\ UNCHANGED objects
       \/ /\ objects' = Append(objects,
                               [session_id |-> mthread[c].id,
                                worker_started |-> FALSE, events |-> <<>>,
                                stopped |-> FALSE, published |-> FALSE,
                                late |-> mthread[c].late])
          /\ mthread' = [mthread EXCEPT ![c].pc = "create_start",
                                        ![c].session = Len(objects) + 1]
    /\ UNCHANGED <<session_vars, w, handler_vars, poll_vars, client_vars, scene,
                   reading, sessions, ghost_vars>>

\* create_session line 292, AgentSession.start: the worker thread is started
\* and session_created appended, or Thread.start raises
CreateStart(c) ==
    /\ mthread[c].pc = "create_start"
    /\ \/ /\ mthread' = [mthread EXCEPT ![c].pc = "create_cleanup",
                                        ![c].exception = StartFailure]
          /\ UNCHANGED objects
       \/ /\ objects' = [objects EXCEPT
                            ![mthread[c].session].worker_started = TRUE,
                            ![mthread[c].session].events =
                                Append(@, "session_created")]
          /\ mthread' = [mthread EXCEPT ![c].pc = "create_publish"]
    /\ UNCHANGED <<session_vars, w, handler_vars, poll_vars, client_vars, scene,
                   reading, sessions, ghost_vars>>

\* create_session, lines 293-298: under the lock the placeholder is deleted
\* when _sessions.get(id) is None, then the exception is raised again; del
\* raises KeyError when the dict has no such key
CreateCleanup(c) ==
    /\ mthread[c].pc = "create_cleanup"
    /\ LET id == mthread[c].id
           existing == IF id \in DOMAIN sessions THEN sessions[id] ELSE NoSession
           raised == IF existing = NoSession /\ id \notin DOMAIN sessions
                     THEN "KeyError" ELSE mthread[c].exception
       IN  /\ sessions' = IF existing = NoSession
                          THEN [i \in DOMAIN sessions \ {id} |-> sessions[i]]
                          ELSE sessions
           /\ mthread' = [mthread EXCEPT ![c].pc = "return",
                                         ![c].session = NoSession,
                                         ![c].exception = raised,
                                         ![c].http = error_status(raised)]
    /\ UNCHANGED <<session_vars, w, handler_vars, poll_vars, client_vars, scene,
                   reading, objects, ghost_vars>>

\* create_session, lines 300-302: the session is published under the lock;
\* do_POST answers 201
CreatePublish(c) ==
    /\ mthread[c].pc = "create_publish"
    /\ sessions' = [i \in DOMAIN sessions \cup {mthread[c].id} |->
                       IF i = mthread[c].id THEN mthread[c].session
                       ELSE sessions[i]]
    /\ objects' = [objects EXCEPT ![mthread[c].session].published = TRUE]
    /\ mthread' = [mthread EXCEPT ![c].pc = "return", ![c].http = 201]
    /\ UNCHANGED <<session_vars, w, handler_vars, poll_vars, client_vars, scene,
                   reading, ghost_vars>>

\* get_session: the dict is read under the lock; a missing id and a
\* placeholder raise KeyError (404)
GetSession(c, id) ==
    /\ mthread[c].pc = "idle"
    /\ \E header \in Authorized :
          LET session == IF id \in DOMAIN sessions THEN sessions[id] ELSE NoSession
          IN  mthread' = [mthread EXCEPT ![c] =
                             IF session = NoSession
                             THEN [IdleCaller EXCEPT !.header = header,
                                                     !.pc = "return", !.op = "get",
                                                     !.id = id,
                                                     !.exception = "KeyError",
                                                     !.http = error_status("KeyError")]
                             ELSE [IdleCaller EXCEPT !.header = header,
                                                     !.pc = "return", !.op = "get",
                                                     !.id = id, !.session = session,
                                                     !.found = {session},
                                                     !.http = 200]]
    /\ UNCHANGED <<session_vars, w, handler_vars, poll_vars, client_vars, scene,
                   reading, sessions, objects, ghost_vars>>

\* list_sessions: the sessions that are no placeholder, read under the lock
ListSessions(c) ==
    /\ mthread[c].pc = "idle"
    /\ \E header \in Authorized :
          mthread' = [mthread EXCEPT ![c] =
                         [IdleCaller EXCEPT !.header = header,
                                            !.pc = "return", !.op = "list",
                                            !.found = Initialized(sessions),
                                            !.http = 200]]
    /\ UNCHANGED <<session_vars, w, handler_vars, poll_vars, client_vars, scene,
                   reading, sessions, objects, ghost_vars>>

\* do_GET / do_POST, first statement, for a request addressed to the
\* manager: the failed check of the token answers 401 and the handler returns
UnauthorizedCaller(c) ==
    /\ c \in Callers
    /\ mthread[c].pc = "idle"
    /\ \E header \in scene.headers \ Authorized :
          mthread' = [mthread EXCEPT ![c] =
                         [IdleCaller EXCEPT !.pc = "return",
                                            !.op = "unauthorized",
                                            !.http = 401,
                                            !.header = header]]
    /\ UNCHANGED <<session_vars, w, handler_vars, poll_vars, client_vars, scene,
                   reading, sessions, objects, ghost_vars>>

\* do_POST, lines 76-134: the path, split at "/", selects the operation; a
\* path that matches none of the four tests falls through to the 404 of
\* line 134
route_post(parts) ==
    IF parts = <<"sessions">> THEN "create"
    ELSE IF Len(parts) = 3 /\ parts[1] = "sessions" /\ parts[3] = "turns"
    THEN "submit"
    ELSE IF Len(parts) = 3 /\ parts[1] = "sessions" /\ parts[3] = "clear"
    THEN "clear"
    ELSE IF Len(parts) = 3 /\ parts[1] = "sessions" /\ parts[3] = "cancel"
    THEN "cancel"
    ELSE "not_found"

\* the path of RemoteAgentClient.shutdown and a path of a session operation
ShutdownPath == <<"shutdown">>
PostPaths == {ShutdownPath, <<"sessions", "a", "stop">>}

\* do_POST for a request that passes the check of the token and whose path
\* selects no operation: 404 is sent, no method of the manager is called and
\* serve_forever goes on
PostNotFound(c) ==
    /\ mthread[c].pc = "idle"
    /\ \E header \in Authorized, parts \in PostPaths :
          /\ route_post(parts) = "not_found"
          /\ mthread' = [mthread EXCEPT ![c] =
                            [IdleCaller EXCEPT !.header = header,
                                               !.pc = "return",
                                               !.op = parts[Len(parts)],
                                               !.http = 404]]
    /\ UNCHANGED <<session_vars, w, handler_vars, poll_vars, client_vars, scene,
                   reading, sessions, objects, ghost_vars>>

\* the reply of a manager call is sent; the thread is free again
ManagerReturn(c) ==
    /\ mthread[c].pc = "return"
    /\ mthread' = [mthread EXCEPT ![c] = IdleCaller]
    /\ UNCHANGED <<session_vars, w, handler_vars, poll_vars, client_vars, scene,
                   reading, sessions, objects, ghost_vars>>

\* stop_all, lines 320-322: under the lock the sessions that are no
\* placeholder are listed and the dict is cleared
StopAllClear ==
    /\ mthread[MainThread].pc = "idle"
    /\ mthread' = [mthread EXCEPT ![MainThread] =
                      [IdleCaller EXCEPT !.pc = "stop_each", !.op = "stop_all",
                                         !.found = Initialized(sessions)]]
    /\ sessions' = <<>>
    /\ UNCHANGED <<session_vars, w, handler_vars, poll_vars, client_vars, scene,
                   reading, objects, ghost_vars>>

\* stop_all, lines 323-324: session.stop() for each listed session; after the
\* last one stop_all has returned
StopAllStop ==
    /\ mthread[MainThread].pc = "stop_each"
    /\ IF mthread[MainThread].found = {}
       THEN /\ mthread' = [mthread EXCEPT ![MainThread].pc = "stopped"]
            /\ UNCHANGED objects
       ELSE \E s \in mthread[MainThread].found :
               /\ objects' = [objects EXCEPT ![s].stopped = TRUE]
               /\ mthread' = [mthread EXCEPT ![MainThread].found = @ \ {s}]
    /\ UNCHANGED <<session_vars, w, handler_vars, poll_vars, client_vars, scene,
                   reading, sessions, ghost_vars>>

\* ------------------------------------------------------------------ read_file

\* read_file, lines 159-160: the largest difference end_line - start_line
\* that is left as it is
MaxRange == 200

\* a text file of total lines; its i-th line is written i
FileLines(total) == [i \in 1..total |-> i]

\* lines[a:b] of Python for 0 <= a: the items with 1-based positions a+1..b,
\* cut at the end of the list
Slice(lines, a, b) ==
    IF a >= Len(lines) \/ b <= a THEN <<>>
    ELSE SubSeq(lines, a + 1, Min(b, Len(lines)))

\* read_file, lines 157-178, for a path that passed the tests of lines
\* 147-155 and a file that can be read: start_line is raised to 1, end_line
\* to start_line, end_line is lowered to start_line + 200; a start beyond
\* the last line is an error message; else the lines
\* lines[start_line - 1 : end_line] are returned with their numbers
read_file(lines, start_line, end_line) ==
    LET first == Max(1, start_line)
        wanted == Max(first, end_line)
        last == IF wanted - first > MaxRange THEN first + MaxRange ELSE wanted
        total_lines == Len(lines)
    IN  IF first > total_lines
        THEN [error |-> TRUE, numbers |-> <<>>, content |-> <<>>,
              first |-> first, last |-> Min(last, total_lines)]
        ELSE LET selected == Slice(lines, first - 1, last)
             IN  [error |-> FALSE,
                  numbers |-> [i \in 1..Len(selected) |-> first + i - 1],
                  content |-> selected,
                  first |-> first, last |-> Min(last, total_lines)]

\* no call of read_file is in progress
NoRead == [pc |-> "idle", total |-> 0, start_line |-> 0, end_line |-> 0,
           result |-> [error |-> FALSE, numbers |-> <<>>, content |-> <<>>,
                       first |-> 0, last |-> 0]]

\* a call of read_file on a text file runs and returns its result
ReadFile ==
    /\ reading.pc = "idle"
    /\ \E r \in scene.reads :
          reading' = [pc |-> "done", total |-> r.total,
                      start_line |-> r.start_line, end_line |-> r.end_line,
                      result |-> read_file(FileLines(r.total), r.start_line,
                                           r.end_line)]
    /\ UNCHANGED <<session_vars, w, handler_vars, poll_vars, client_vars, scene,
                   manager_vars, ghost_vars>>

\* the result has been handed to the caller
ReadDone ==
    /\ reading.pc = "done"
    /\ reading' = NoRead
    /\ UNCHANGED <<session_vars, w, handler_vars, poll_vars, client_vars, scene,
                   manager_vars, ghost_vars>>

\* ------------------------------------------------------------ specifications

Providers == {"gemini", "kimi"}

\* tool calls a model response may carry: a search, the same search with its
\* arguments written in another order, a read with a given start line, and a
\* call of a tool that is not registered; call_id is the id the provider gave
\* the call, a prefix and a number
CallA == [name |-> "search_files", args |-> <<<<1, "src">>, <<2, "foo">>>>,
          call_id |-> <<"id_", 1>>]
CallAr == [name |-> "search_files", args |-> <<<<2, "foo">>, <<1, "src">>>>,
           call_id |-> <<"id_", 2>>]
CallB == [name |-> "list_dir", args |-> <<>>, call_id |-> <<"id_", 3>>]
CallRead(i) == [name |-> "read_file", args |-> <<<<1, "a.py">>, <<2, i>>>>,
                call_id |-> <<"id_", 10 + i>>]
CallUnknown == [name |-> "run_shell", args |-> <<<<1, "ls">>>>,
                call_id |-> <<"id_", 4>>]
\* the same calls as a provider returns them without an id
WithoutId(call) == [call EXCEPT !.call_id = NoCallId]

\* a response with n identical calls, and one with n pairwise distinct calls
Identical(n) == [i \in 1..n |-> CallA]
Distinct(n) == [i \in 1..n |-> CallRead(i)]

\* exceptions a provider call may raise: an error that is no rate limit, and
\* rate-limit errors without and with a "retry in <n>s" part
Boom == [kind |-> "RuntimeError", message |-> <<"boom">>, retry_in |-> <<>>]
RateLimited ==
    [kind |-> "ClientError", message |-> <<"429", "RESOURCE_EXHAUSTED">>,
     retry_in |-> <<>>]
RateLimitedRetryIn ==
    [kind |-> "APIError", message |-> <<"Error", "429", "retry", "in", "90s">>,
     retry_in |-> <<RetryDelayMax + 30>>]

\* the threads and the environment of a run: one handler thread that submits
\* turns, a provider whose responses carry no tool call, one, or the same one
\* twice and whose failures are no rate-limit errors, tools that return a
\* short text, submissions whose input is a text between whitespace, and
\* a server that is started without a token
BaseScene ==
    [provider |-> "kimi", handlers |-> {"h1"}, ops |-> {"submit"},
     turns |-> MaxTurns, pollers |-> {},
     responses |-> {<<CallA>>, <<CallA, CallA>>},
     exceptions |-> {Boom}, outcomes |-> {"ok"}, texts |-> {"text"},
     inputs |-> {[is_str |-> TRUE, text |-> <<" ", "h", "i", "\n">>]},
     auth_token |-> <<>>, headers |-> {<<>>},
     reads |-> {},
     rounds |-> MaxToolRounds, full_log |-> FALSE]

\* the state after AgentSession.__init__, with the threads of the run
InitWith(providers, sc) ==
    /\ events = <<>>
    /\ last_event_id = 0
    /\ turn_counter = 0
    /\ busy = FALSE
    /\ stopped = FALSE
    /\ queue = <<>>
    /\ history = <<>>
    /\ w = IdleWorker
    /\ hpc = [h \in Handlers |-> "idle"]
    /\ hloc = [h \in Handlers |-> NoLocals]
    /\ calls = [clear |-> 0, cancel |-> 0, status |-> 0,
                idle_clear |-> FALSE, drained |-> FALSE, removed |-> <<>>]
    /\ ppc = [p \in Pollers |-> "idle"]
    /\ pargs = [p \in Pollers |-> [after |-> 0, wait_ms |-> 0, limit |-> 1]]
    /\ reply = [p \in Pollers |-> [events |-> <<>>, last_event_id |-> 0,
                                   oldest_event_id |-> 1, dropped_events |-> 0]]
    /\ expired = [p \in Pollers |-> FALSE]
    /\ cursor = 0
    /\ delivered = <<>>
    /\ dropped_seen = {}
    /\ \E pr \in providers : scene = [sc EXCEPT !.provider = pr]
    /\ reading = NoRead
    /\ sessions = <<>>
    /\ objects = <<>>
    /\ mthread = [c \in Callers \cup {MainThread} |-> IdleCaller]
    /\ tlog = [t \in Turns |-> <<>>]
    /\ wlog = <<>>
    /\ log = <<>>

\* the steps of the worker thread around the reasoning loop
RunSteps ==
    \/ Start
    \/ WorkerGet
    \/ RunSetBusy
    \/ EmitTurnStarted
    \/ EmitUser
    \/ AgentTurnBegin
    \/ InvokeRaises
    \/ InvokeAnswers
    \/ EmitAnswer
    \/ Rollback
    \/ EmitError
    \/ ResetBusy
    \/ EmitTurnFinished

\* the steps of the reasoning loop when the model asks for tool calls that
\* are executed
ToolSteps ==
    \/ InvokeCalls
    \/ ToolCall
    \/ EmitToolResult
    \/ AppendToolResults

\* the steps of the worker thread while no cap of the reasoning loop is hit
\* and no provider call is rate-limited
TurnSteps == RunSteps \/ ToolSteps \/ EmitDeduplicated

\* the steps of _call_with_retry after a rate-limit error
RetrySteps ==
    \/ EmitRateLimitRetry
    \/ EmitRateLimitFailed

\* the steps that recover from a breach of a call cap
CapSteps ==
    \/ EmitWarning
    \/ AppendLocalAnswer

Submitting(h) ==
    \/ SubmitTurn(h)
    \/ SubmitPut(h)
    \/ SubmitEmit(h)

Clearing(h) ==
    \/ Clear(h)
    \/ DropPending(h)
    \/ ClearCheck(h)
    \/ ClearEmit(h)
    \/ Return(h)

Cancelling(h) ==
    \/ Cancel(h)
    \/ DropPending(h)
    \/ PutBackSentinel(h)
    \/ CancelSnapshot(h)
    \/ CancelEmit(h)
    \/ Return(h)

AskingStatus(h) ==
    \/ Status(h)
    \/ StatusQsize(h)

\* one session, its worker, and two handler threads that submit turns
\* concurrently; a model response carries no tool call or one, so that no cap
\* of the reasoning loop is reached
Init == InitWith({"kimi"}, [BaseScene EXCEPT !.handlers = Handlers])

Next ==
    \/ TurnSteps
    \/ \E h \in Handlers : Submitting(h)

Spec == Init /\ [][Next]_vars

\* one session, its worker, and a handler thread that submits turns and
\* clears the session
InitClear == InitWith(Providers, [BaseScene EXCEPT !.ops = {"submit", "clear"}])

NextClear ==
    \/ TurnSteps
    \/ \E h \in Handlers : Submitting(h) \/ Clearing(h)

SpecClear == InitClear /\ [][NextClear]_vars

\* one session, its worker, a handler thread that submits turns, and a client
\* thread that calls get_events with any arguments
InitPoll ==
    InitWith({"kimi"}, [BaseScene EXCEPT !.turns = MaxTurnsRead,
                                         !.pollers = {"poller"},
                                         !.responses = {<<CallA>>},
                                         !.full_log = TRUE])

NextPoll ==
    \/ RunSteps
    \/ ToolSteps
    \/ \E h \in Handlers : Submitting(h)
    \/ \E p \in Pollers : PollCall(p) \/ GetEvents(p) \/ DeadlinePasses(p)

SpecPoll == InitPoll /\ [][NextPoll]_vars

\* one session, its worker, a handler thread that submits turns, and a client
\* that follows the event stream
InitFollow ==
    InitWith({"kimi"}, [BaseScene EXCEPT !.turns = MaxTurnsRead,
                                         !.pollers = {"follower"},
                                         !.responses = {<<CallA>>},
                                         !.full_log = TRUE])

NextFollow ==
    \/ RunSteps
    \/ ToolSteps
    \/ \E h \in Handlers : Submitting(h)
    \/ \E p \in Pollers :
          FollowCall(p) \/ GetEvents(p) \/ DeadlinePasses(p) \/ FollowReceive(p)

SpecFollow == InitFollow /\ [][NextFollow]_vars

\* one session whose provider fails, with rate-limit errors and others, or
\* answers with text; threads are scheduled fairly and provider calls return
InitRetry ==
    InitWith({"kimi"},
             [BaseScene EXCEPT !.exceptions = {Boom, RateLimited, RateLimitedRetryIn},
                               !.rounds = 0])

NextRetry ==
    \/ RunSteps
    \/ RetrySteps
    \/ \E h \in Handlers : Submitting(h)

SpecRetry ==
    /\ InitRetry
    /\ [][NextRetry]_vars
    /\ WF_vars(RunSteps \/ RetrySteps)
    /\ \A h \in Handlers : WF_vars(Submitting(h))

\* one session and one turn in which the model may ask for many tool calls at
\* once: as many as a cap allows and one more, identical or pairwise distinct
InitCaps ==
    InitWith(Providers,
             [BaseScene EXCEPT
                 !.turns = MaxTurnsRead,
                 !.rounds = MaxCapRounds,
                 !.responses = {<<CallA, CallAr, CallB, CallA>>,
                                Distinct(MAX_TOOL_CALLS_PER_TURN),
                                Distinct(MAX_TOOL_CALLS_PER_TURN + 1),
                                Identical(MAX_TOOL_CALLS_PER_TURN + 1),
                                Distinct(MAX_RAW_TOOL_CALLS_PER_TURN + 1),
                                Identical(MAX_RAW_TOOL_CALLS_PER_TURN + 1)}])

NextCaps ==
    \/ TurnSteps
    \/ CapSteps
    \/ \E h \in Handlers : Submitting(h)

SpecCaps == InitCaps /\ [][NextCaps]_vars

\* one session whose model asks for registered and unregistered tools, and
\* whose tools return a short text, a long text, or raise
InitTools ==
    InitWith(Providers,
             [BaseScene EXCEPT
                 !.turns = MaxTurnsRead,
                 !.outcomes = {"ok", "long", "raises"},
                 !.responses = {<<CallA>>, <<CallUnknown>>,
                                <<CallB, CallUnknown, CallUnknown>>}])

SpecTools == InitTools /\ [][Next]_vars

\* one session, its worker, and two handler threads that submit turns, clear
\* the session and ask for its status
InitStatus ==
    InitWith({"kimi"}, [BaseScene EXCEPT !.handlers = Handlers,
                                         !.turns = MaxTurnsRead,
                                         !.rounds = 0,
                                         !.ops = {"submit", "clear", "status"}])

NextStatus ==
    \/ RunSteps
    \/ \E h \in Handlers : Submitting(h) \/ Clearing(h) \/ AskingStatus(h)

SpecStatus == InitStatus /\ [][NextStatus]_vars

\* one session, its worker, a handler thread that submits turns and cancels,
\* and the manager that stops the session
InitCancel ==
    InitWith({"kimi"}, [BaseScene EXCEPT !.ops = {"submit", "cancel", "stop"},
                                         !.rounds = 0,
                                         !.full_log = TRUE])

NextCancel ==
    \/ RunSteps
    \/ Stop
    \/ \E h \in Handlers : Submitting(h) \/ Cancelling(h)

SpecCancel == InitCancel /\ [][NextCancel]_vars

\* one session, its worker, and a handler thread that submits turns, clears
\* the session and cancels; the worker thread is scheduled fairly and every
\* provider call returns
InitInFlight ==
    InitWith({"kimi"}, [BaseScene EXCEPT !.ops = {"submit", "clear", "cancel"},
                                         !.rounds = 0])

NextInFlight ==
    \/ RunSteps
    \/ \E h \in Handlers :
          \/ Submitting(h)
          \/ Clearing(h)
          \/ Cancel(h)
          \/ CancelSnapshot(h)
          \/ CancelEmit(h)

SpecInFlight ==
    /\ InitInFlight
    /\ [][NextInFlight]_vars
    /\ WF_vars(RunSteps)

\* request bodies whose "input" is no string, is empty, or is whitespace only
RejectedInputs ==
    {[is_str |-> FALSE, text |-> <<>>],
     [is_str |-> TRUE, text |-> <<>>],
     [is_str |-> TRUE, text |-> <<" ", "\t", "\n">>]}

\* one session, its worker, and two handler threads that serve submissions
\* concurrently, with inputs that are accepted and inputs that are rejected
InitSubmit ==
    InitWith({"kimi"},
             [BaseScene EXCEPT !.handlers = Handlers,
                               !.rounds = 0,
                               !.inputs = @ \cup RejectedInputs])

NextSubmit ==
    \/ RunSteps
    \/ \E h \in Handlers : Submitting(h) \/ SubmitRejected(h) \/ Return(h)

SpecSubmit == InitSubmit /\ [][NextSubmit]_vars

\* one session, its worker, and two handler threads that submit turns, clear
\* the session and cancel concurrently
InitDrain ==
    InitWith({"kimi"}, [BaseScene EXCEPT !.handlers = Handlers,
                                         !.ops = {"submit", "clear", "cancel"},
                                         !.turns = MaxTurnsRead,
                                         !.rounds = 0])

SpecDrain == InitDrain /\ [][NextInFlight]_vars

\* the manager's calls that handler threads make
ManagerCalls(c) ==
    \/ \E id \in SessionIds : CreateReserve(c, id) \/ GetSession(c, id)
    \/ CreateBuild(c)
    \/ CreateStart(c)
    \/ CreateCleanup(c)
    \/ CreatePublish(c)
    \/ ListSessions(c)
    \/ ManagerReturn(c)

\* a manager whose sessions are created, looked up and listed by two handler
\* threads concurrently; creating a session may fail at any of its calls
NextCreate == \E c \in Callers : ManagerCalls(c)

SpecCreate == InitWith({"kimi"}, BaseScene) /\ [][NextCreate]_vars

\* the same manager while the server shuts down: stop_all runs concurrently
\* with the handler threads, which are daemon threads and are not joined
NextManager ==
    \/ \E c \in Callers : ManagerCalls(c)
    \/ StopAllClear
    \/ StopAllStop

SpecManager == InitWith({"kimi"}, BaseScene) /\ [][NextManager]_vars

\* a server started with a token: one handler thread works on the session
\* and one on the manager, and requests come without the header, with the
\* token and with other values
InitAuth ==
    InitWith({"kimi"},
             [BaseScene EXCEPT
                 !.ops = {"submit", "clear"},
                 !.turns = MaxTurnsRead,
                 !.rounds = 0,
                 !.auth_token = <<"secret">>,
                 !.headers = {<<>>, <<"">>, <<"SECRET">>, <<"secret2">>,
                              <<"secret">>}])

NextAuth ==
    \/ RunSteps
    \/ \E h \in Handlers :
          \/ Submitting(h)
          \/ Clearing(h)
          \/ Unauthorized(h)
    \/ ManagerCalls("c1")
    \/ UnauthorizedCaller("c1")

SpecAuth == InitAuth /\ [][NextAuth]_vars

\* a server started with a token whose handler thread serves creates,
\* lookups and posts to paths outside the routes, RemoteAgentClient.shutdown
\* among them, until the main thread leaves serve_forever and stops the
\* sessions
InitShutdown ==
    InitWith({"kimi"},
             [BaseScene EXCEPT
                 !.auth_token = <<"secret">>,
                 !.headers = {<<>>, <<"secret">>}])

NextShutdown ==
    \/ ManagerCalls("c1")
    \/ PostNotFound("c1")
    \/ UnauthorizedCaller("c1")
    \/ StopAllClear
    \/ StopAllStop

SpecShutdown == InitShutdown /\ [][NextShutdown]_vars

\* calls of read_file with start and end lines below, at and above 1, ranges
\* around the cap, on files that are empty, short, and longer than the cap
StartLines == {-2, 0, 1, 2, 5}
EndLines == {-3, 0, 1, 4, 200, 201, 202, 206, 400}
FileLengths == {0, 1, 4, 200, 201, 202, 210}

InitRead ==
    InitWith({"kimi"},
             [BaseScene EXCEPT
                 !.reads = [total : FileLengths, start_line : StartLines,
                            end_line : EndLines]])

NextRead == ReadFile \/ ReadDone

SpecRead == InitRead /\ [][NextRead]_vars

\* one session whose model asks, in each of two turns, for a search, a
\* listing and the first search again, or for the same search twice in a row
InitDiverse ==
    InitWith({"kimi"},
             [BaseScene EXCEPT
                 !.rounds = 1,
                 !.responses = {<<CallA, CallB, CallA>>, <<CallA, CallAr>>}])

SpecDiverse == InitDiverse /\ [][Next]_vars

\* one session of the kimi provider whose model returns tool calls with the
\* ids the provider gave them, and tool calls without an id
InitCallIds ==
    InitWith({"kimi"},
             [BaseScene EXCEPT
                 !.turns = MaxTurnsRead,
                 !.responses = {<<CallA, CallB>>,
                                <<WithoutId(CallA), WithoutId(CallAr), CallB>>}])

SpecCallIds == InitCallIds /\ [][Next]_vars

\* one session, its worker, a handler thread that submits a turn and cancels,
\* and the manager that stops the session; the worker thread is scheduled
\* fairly, every provider call returns, and a handler thread that is inside
\* submit_turn or cancel goes on to the end of the call
InitStopped ==
    InitWith({"kimi"}, [BaseScene EXCEPT !.ops = {"submit", "cancel", "stop"},
                                         !.turns = MaxTurnsRead,
                                         !.rounds = 0])

InsideCall(h) ==
    \/ SubmitPut(h)
    \/ SubmitEmit(h)
    \/ DropPending(h)
    \/ PutBackSentinel(h)
    \/ CancelSnapshot(h)
    \/ CancelEmit(h)
    \/ Return(h)

SpecStopped ==
    /\ InitStopped
    /\ [][NextCancel]_vars
    /\ WF_vars(RunSteps)
    /\ \A h \in Handlers : WF_vars(InsideCall(h))

\* ------------------------------------------------------------------ claims

Range(f) == {f[i] : i \in DOMAIN f}

\* the events of turn t that have the given type, as positions of its log
TurnPositions(t, type) == {k \in 1..Len(tlog[t]) : tlog[t][k] = type}
HasT(t, type) == TurnPositions(t, type) # {}

\* the positions, in the worker's log, of the events of turn t with a type
WorkerPositions(t, type) ==
    {k \in 1..Len(wlog) : wlog[k].type = type /\ wlog[k].turn_id = t}
HasW(t, type) == WorkerPositions(t, type) # {}

\* a turn is completed once its turn_finished event is appended
Completed(t) == HasT(t, "turn_finished")

\* C1: in every reachable state the buffered events have consecutive event
\* ids, each 1 greater than the one before, from the oldest buffered id up to
\* last_event_id, with no gap and no duplicate, whichever threads appended them
C1_ConsecutiveIds ==
    /\ \A i \in 1..Len(events) - 1 :
          events[i + 1].event_id = events[i].event_id + 1
    /\ events # <<>> =>
          /\ events[1].event_id = oldest_event_id
          /\ events[Len(events)].event_id = last_event_id
    /\ events = <<>> => last_event_id = 0

\* C1 witness: the buffer is full, events were dropped from it, and it holds
\* events appended by a handler thread and by the worker thread
C1_Witness ==
    /\ Len(events) = MaxEvents
    /\ last_event_id > MaxEvents
    /\ \E i, j \in 1..Len(events) :
          /\ events[i].type = "turn_enqueued"
          /\ events[j].type \in WorkerTypes

\* the shape of a completed turn's event sequence: it begins with
\* turn_started, then user, holds exactly one answer or error, and exactly one
\* turn_finished, which follows the answer or error
TurnShape(sub) ==
    LET outcome == {k \in 1..Len(sub) : sub[k] \in {"answer", "error"}}
        finish == {k \in 1..Len(sub) : sub[k] = "turn_finished"}
    IN  /\ Len(sub) >= 4
        /\ sub[1] = "turn_started"
        /\ sub[2] = "user"
        /\ Cardinality(outcome) = 1
        /\ Cardinality(finish) = 1
        /\ \A a \in outcome, f \in finish : a < f

\* C2 as stated: for every completed turn T, the events carrying turn_id = T
\* begin with turn_started and then user, and contain exactly one answer or
\* error followed by exactly one turn_finished
C2_AllTurnEventsShape ==
    \A t \in Turns : Completed(t) => TurnShape(tlog[t])

\* the events of a turn that the worker appended (all but turn_enqueued,
\* which submit_turn appends with the same turn_id)
RunEvents(t) == SelectSeq(tlog[t], LAMBDA type : type # "turn_enqueued")

\* C2, amended: for every completed turn T, the events carrying turn_id = T
\* other than its turn_enqueued begin with turn_started and then user, and
\* contain exactly one answer or error followed by exactly one turn_finished,
\* which is the last of them
C2_RunEventsShape ==
    \A t \in Turns :
        Completed(t) =>
            /\ TurnShape(RunEvents(t))
            /\ RunEvents(t)[Len(RunEvents(t))] = "turn_finished"
            /\ RunEvents(t)[Len(RunEvents(t)) - 1] \in {"answer", "error"}

\* C2 witness: one turn completed with an answer after a tool call, another
\* completed with an error
C2_Witness ==
    \E t, u \in Turns :
        /\ Completed(t) /\ HasT(t, "answer") /\ HasT(t, "tool_result")
        /\ Completed(u) /\ HasT(u, "error")

\* C3: turns run in the order of their turn ids: for turns i < j that are both
\* started, turn_finished of i is appended before turn_started of j
C3_SubmissionOrder ==
    \A i, j \in Turns :
        (i < j /\ HasW(i, "turn_started") /\ HasW(j, "turn_started")) =>
            \E f \in WorkerPositions(i, "turn_finished") :
                \A st \in WorkerPositions(j, "turn_started") : f < st

\* some turn has its turn_started event in the log and no turn_finished yet
InFlight == \E t \in Turns : HasW(t, "turn_started") /\ ~HasW(t, "turn_finished")

\* C4 as stated: busy is true if and only if some turn has its turn_started
\* event in the log and its turn_finished event not yet in the log
C4_BusyIffInFlight == busy <=> InFlight

\* C4, amended: busy is true if and only if some turn has its turn_started
\* event in the log and its turn_finished not yet, except in two windows of
\* the worker: busy is already true when the worker is about to append
\* turn_started, and already false when it is about to append turn_finished
C4_BusyIffInFlightButWindows ==
    /\ busy <=> \/ w.pc = "emit_started"
                \/ InFlight /\ w.pc # "emit_finished"
    /\ w.pc = "emit_started" => ~InFlight
    /\ w.pc = "emit_finished" => InFlight

\* C4 witness: the turn's answer is in the log, busy is reset, and
\* turn_finished is not appended yet
C4_Witness ==
    /\ ~busy
    /\ w.pc = "emit_finished"
    /\ HasW(w.turn_id, "answer")
    /\ ~HasW(w.turn_id, "turn_finished")

\* a get_events call of thread p returns in this step
Replies(p) == ppc[p] # "done" /\ ppc'[p] = "done"

\* the event ever appended with the given id, as the buffer stores it
Logged(id) == AgentEvent(id, log[id].type, log[id].payload, log[id].turn_id)

\* C5: after any sequence of appends the buffer holds exactly the
\* min(last_event_id, MaxEvents) most recent events, in their order; and a
\* get_events reply to after = 0, given once at least MaxEvents events were
\* appended, reports dropped_events = last_event_id - MaxEvents
C5_BufferHoldsMostRecent ==
    /\ Len(log) = last_event_id
    /\ Len(events) = Min(last_event_id, MaxEvents)
    /\ \A i \in 1..Len(events) :
          events[i] = Logged(last_event_id - Len(events) + i)
    /\ \A p \in Pollers :
          (/\ ppc[p] = "done"
           /\ pargs[p].after = 0
           /\ reply[p].last_event_id >= MaxEvents) =>
              reply[p].dropped_events = reply[p].last_event_id - MaxEvents

\* C5 witness: more than MaxEvents events were appended and a reply to
\* after = 0 reported the dropped ones
C5_Witness ==
    /\ ppc["poller"] = "done"
    /\ pargs["poller"].after = 0
    /\ reply["poller"].last_event_id > MaxEvents
    /\ reply["poller"].dropped_events > 0
    /\ Len(events) = MaxEvents

\* C6: in every get_events reply with 0 <= after <= last_event_id,
\* dropped_events is the number of event ids in (after, last_event_id] that are
\* no longer in the buffer, so that dropped_events plus the number of buffered
\* events with event_id > after is last_event_id - after
C6_DroppedCount ==
    [][\A p \in Pollers :
          (Replies(p) /\ 0 <= pargs[p].after /\ pargs[p].after <= last_event_id) =>
             LET after == pargs[p].after
                 buffered == {events[i].event_id : i \in 1..Len(events)}
                 gone == {id \in (after + 1)..last_event_id : id \notin buffered}
                 kept == {i \in 1..Len(events) : events[i].event_id > after}
             IN  /\ reply'[p].dropped_events = Cardinality(gone)
                 /\ reply'[p].dropped_events + Cardinality(kept)
                       = last_event_id - after]_vars

\* C6 witness: a reply to an after > 0 that counts dropped events and lists
\* buffered ones
C6_Witness ==
    /\ ppc["poller"] = "done"
    /\ pargs["poller"].after > 0
    /\ reply["poller"].dropped_events > 0
    /\ reply["poller"].events # <<>>

\* C7: a get_events reply lists, in ascending event_id order, exactly the first
\* min(limit, n) of the n buffered events with event_id > after, and never an
\* event with event_id <= after
C7_ReplyEvents ==
    [][\A p \in Pollers :
          Replies(p) =>
             LET after == pargs[p].after
                 limit == pargs[p].limit
                 r == reply'[p].events
                 newer == {i \in 1..Len(events) : events[i].event_id > after}
             IN  /\ Len(r) = Min(limit, Cardinality(newer))
                 /\ \A k \in 1..Len(r) :
                       /\ r[k].event_id > after
                       /\ \E i \in newer : events[i] = r[k]
                 /\ \A k \in 1..Len(r) - 1 : r[k].event_id < r[k + 1].event_id
                 /\ \A i \in newer :
                       (r # <<>> /\ events[i].event_id < r[Len(r)].event_id) =>
                          \E k \in 1..Len(r) : r[k] = events[i]]_vars

\* C7 witness: a reply that was cut to the limit: it lists limit events, none
\* with event_id <= after, and newer events exist
C7_Witness ==
    /\ ppc["poller"] = "done"
    /\ pargs["poller"].after > 0
    /\ Len(reply["poller"].events) = pargs["poller"].limit
    /\ reply["poller"].events[Len(reply["poller"].events)].event_id
          < reply["poller"].last_event_id

\* how often the following client was handed the event with this id
Deliveries(id) == Cardinality({k \in 1..Len(delivered) : delivered[k] = id})

\* C8: a client that calls get_events again and again with after set to the
\* last_event_id of the reply before is delivered every event exactly once,
\* except the events a reply counted in its dropped_events
C8_EveryEventOnce ==
    \A id \in 1..cursor :
        \/ Deliveries(id) = 1 /\ id \notin dropped_seen
        \/ Deliveries(id) = 0 /\ id \in dropped_seen

C10_RollbackOnFailure ==
    /\ \A t \in Turns :
          (HasT(t, "error") \/ (w.turn_id = t /\ w.pc = "emit_error")) =>
              (history = <<>> \/ Last(history) # Message("user", t))
    /\ (w.pc \in {"emit_error", "reset_busy"} /\ w.status = "failed"
           /\ w.invokes = 1) => history = w.hist_before
    /\ (w.pc = "emit_finished" /\ w.status = "failed" /\ w.invokes = 1) =>
          history \in {w.hist_before, <<>>}

\* C10 witness: the first model invocation of a turn failed on a session whose
\* history held an earlier turn, and the user message is rolled back
C10_Witness ==
    /\ w.pc = "emit_error"
    /\ w.invokes = 1
    /\ w.hist_before # <<>>
    /\ history = w.hist_before

\* the events the worker appended for turn t, in the order it appended them
WorkerEvents(t) == SelectSeq(wlog, LAMBDA e : e.turn_id = t)

\* the error event of turn t for the exception e
ErrorEventOf(t, e) ==
    [type |-> "error", turn_id |-> t,
     payload |-> [message |-> <<e.kind, ":">> \o e.message]]

\* what holds in every state about a turn whose model invocation raised
FailureSurfaced ==
    /\ w.pc # "exit"
    /\ w.pc = "emit_finished" => ~busy
    /\ w.status = "failed" /\ w.pc \in {"reset_busy", "emit_finished"} =>
          LET evs == WorkerEvents(w.turn_id)
          IN  /\ evs[Len(evs)] = ErrorEventOf(w.turn_id, w.exception)
              /\ Cardinality(WorkerPositions(w.turn_id, "error")) = 1
    /\ \A t \in Turns :
          HasW(t, "error") /\ HasW(t, "turn_finished") =>
              LET evs == WorkerEvents(t)
              IN  /\ Cardinality(WorkerPositions(t, "error")) = 1
                  /\ evs[Len(evs) - 1].type = "error"
                  /\ evs[Len(evs)].type = "turn_finished"
                  /\ evs[Len(evs)].payload = [status |-> "failed"]

\* C11: when a model invocation raises, also after the rate-limit retries are
\* used up, the worker appends exactly one error event whose message is the
\* exception's kind, a colon and its message, then turn_finished with status
\* failed, with busy reset to false before it; the worker thread does not
\* end, the failed turn does finish, and every turn queued after a failure is
\* still dequeued and run
C11_FailedTurnRecovers ==
    /\ []FailureSurfaced
    /\ \A t \in Turns :
          /\ (w.turn_id = t /\ w.status = "failed")
                ~> (HasW(t, "turn_finished") /\ ~busy)
          /\ ((\E u \in Turns : HasW(u, "error")) /\ t \in QueuedTurns(queue))
                ~> HasW(t, "turn_started")

\* C11 witness: a turn has failed and finished, a turn has failed after three
\* rate-limited attempts, and a turn submitted later has been started
C11_Witness ==
    \E t, u \in Turns :
        /\ t < u
        /\ HasW(t, "error") /\ HasW(t, "turn_finished")
        /\ HasW(u, "turn_started")
        /\ \E v \in Turns : HasW(v, "rate_limit_failed") /\ HasW(v, "error")

\* the numbers of tool_call events of turn t, and of those among them whose
\* call was executed (the others are answered by tool_deduplicated)
ToolCallEvents(t) == Cardinality(WorkerPositions(t, "tool_call"))
ExecutedCalls(t) ==
    ToolCallEvents(t) - Cardinality(WorkerPositions(t, "tool_deduplicated"))

\* C12: in any single turn, whatever tool calls the model's responses carry,
\* at most 15 tool calls are executed and at most 60 tool_call events are
\* appended
C12_CapsRespected ==
    \A t \in Turns :
        HasW(t, "turn_finished") =>
            /\ ExecutedCalls(t) <= MAX_TOOL_CALLS_PER_TURN
            /\ ToolCallEvents(t) <= MAX_RAW_TOOL_CALLS_PER_TURN

\* two calls are identical when they name the same tool with the same
\* arguments, whatever the order the arguments are written in
SameCall(a, b) == a.name = b.name /\ Range(a.args) = Range(b.args)

\* the positions of the tool_call events in a sequence of events
CallPositions(evs) == {k \in 1..Len(evs) : evs[k].type = "tool_call"}

\* the tool call at position k repeats the call just before it; cps are the
\* positions of the tool calls
Repeats(evs, cps, k) ==
    \E j \in cps :
        /\ j < k
        /\ \A i \in cps : ~(j < i /\ i < k)
        /\ SameCall(evs[j].payload, evs[k].payload)

\* the calls of a turn are n calls, all identical
AllIdentical(evs, n) ==
    /\ Cardinality(CallPositions(evs)) = n
    /\ \A j, k \in CallPositions(evs) : SameCall(evs[j].payload, evs[k].payload)

\* the worker has processed all tool calls of a response, or has appended the
\* answer of the turn
CallsProcessed == w.pc \in {"append_results", "reset_busy"}

\* C13: within a turn a tool call is answered from the cache, with one
\* tool_deduplicated event, exactly when it has the same name and the same
\* arguments as the call just before it, in the same model response or in the
\* one before; every other call is executed. So a run of k identical calls is
\* executed once and gives k-1 tool_deduplicated events, the effective counter
\* counts the executed calls and the raw counter all calls, and a turn of 16
\* identical calls has 1 execution, 15 tool_deduplicated events, no warning
\* and the model's own answer
C13_ConsecutiveDuplicates ==
    CallsProcessed =>
        LET evs == WorkerEvents(w.turn_id)
            cps == CallPositions(evs)
            repeated == {k \in cps : Repeats(evs, cps, k)}
        IN  /\ \A k \in cps :
                  evs[k + 1].type = IF k \in repeated THEN "tool_deduplicated"
                                    ELSE "tool_result"
            /\ \A k \in 2..Len(evs) :
                  evs[k].type = "tool_deduplicated" => evs[k - 1].type = "tool_call"
            /\ w.raw_tool_call_count = Cardinality(cps)
            /\ w.tool_call_count = Cardinality(cps \ repeated)
            /\ AllIdentical(evs, MAX_TOOL_CALLS_PER_TURN + 1)
                  /\ evs[Len(evs)].type = "answer" =>
                  /\ w.tool_call_count = 1
                  /\ Cardinality(WorkerPositions(w.turn_id, "tool_deduplicated"))
                        = MAX_TOOL_CALLS_PER_TURN
                  /\ ~HasW(w.turn_id, "warning")
                  /\ \E text \in scene.texts :
                        evs[Len(evs)].payload = [text |-> answer_text(text)]

\* C13 witness: a turn whose model asked 16 times for the same call in one
\* response has ended with an answer
C13_Witness ==
    /\ w.pc = "reset_busy"
    /\ AllIdentical(WorkerEvents(w.turn_id), MAX_TOOL_CALLS_PER_TURN + 1)
    /\ HasW(w.turn_id, "answer")

\* the tool calls at the positions cps of evs are pairwise distinct
AllDistinct(evs, cps) ==
    \A j, k \in cps : j # k => ~SameCall(evs[j].payload, evs[k].payload)

\* the end of a finished turn whose loop stopped at a cap: one warning, which
\* follows the last tool result, then the answer built in the loop, which
\* begins with the given notice, then turn_finished with status completed
EndsWithLocalAnswer(evs, cps, notice) ==
    LET warnings == {k \in 1..Len(evs) : evs[k].type = "warning"}
    IN  /\ Cardinality(warnings) = 1
        /\ \A k \in warnings :
              /\ \A c \in cps : c < k
              /\ evs[k - 1].type = "tool_result"
              /\ k = Len(evs) - 2
        /\ evs[Len(evs) - 1].type = "answer"
        /\ Head(evs[Len(evs) - 1].payload.text) = notice
        /\ evs[Len(evs)].type = "turn_finished"
        /\ evs[Len(evs)].payload = [status |-> "completed"]

CapReached ==
    \/ w.tool_call_count >= MAX_TOOL_CALLS_PER_TURN
    \/ w.raw_tool_call_count >= MAX_RAW_TOOL_CALLS_PER_TURN

\* C15: once a call counter has reached its limit the loop invokes the model
\* no more in that turn; after the calls of the response are processed it
\* emits one warning, appends the summary it builds as an assistant message,
\* so that history ends with it, and returns it: the turn ends with an answer
\* event carrying that summary and turn_finished with status completed, and
\* has no error event
C15_CapBreachRecovered ==
    /\ CapReached => w.pc # "invoke"
    /\ CapReached /\ w.pc \in {"append_local", "emit_answer", "reset_busy",
                               "emit_finished"} =>
          /\ Cardinality(WorkerPositions(w.turn_id, "warning")) = 1
          /\ ~HasW(w.turn_id, "error")
          /\ w.status = "completed"
    /\ CapReached /\ w.pc \in {"emit_answer", "reset_busy", "emit_finished"} =>
          /\ Last(history) = [role |-> "assistant", turn |-> w.turn_id,
                              content |-> w.answer]
          /\ Head(w.answer)[1] \in {"effective", "raw"}
          /\ w.invokes = w.rounds
    /\ CapReached /\ w.pc \in {"reset_busy", "emit_finished"} =>
          Last(wlog) = [type |-> "answer", turn_id |-> w.turn_id,
                        payload |-> [text |-> w.answer]]
    /\ \A t \in Turns :
          HasW(t, "warning") /\ HasW(t, "turn_finished") =>
              /\ ~HasW(t, "error")
              /\ Last(WorkerEvents(t)) =
                    [type |-> "turn_finished", turn_id |-> t,
                     payload |-> [status |-> "completed"]]

\* C15 witness: a turn stopped at the cap of the raw requests
\* with a single executed call, and has finished
C15_Witness ==
    \E t \in Turns :
        /\ HasW(t, "warning")
        /\ HasW(t, "turn_finished")
        /\ Cardinality(WorkerPositions(t, "tool_deduplicated"))
              = MAX_RAW_TOOL_CALLS_PER_TURN

\* the rate-limit events of turn t, in order; in SpecRetry a turn makes one
\* retry-wrapped model invocation
RateEvents(t) ==
    SelectSeq(WorkerEvents(t),
              LAMBDA e : e.type \in {"rate_limit_retry", "rate_limit_failed"})

\* evs are n rate_limit_retry events, with attempt 1 to n
RetriesUpTo(evs, n) ==
    /\ Len(evs) = n
    /\ \A i \in 1..n :
          /\ evs[i].type = "rate_limit_retry"
          /\ evs[i].payload.attempt = i

\* evs are the events of an invocation that was rate-limited three times
Exhausted(evs) ==
    /\ Len(evs) = MAX_RETRIES
    /\ RetriesUpTo(SubSeq(evs, 1, MAX_RETRIES - 1), MAX_RETRIES - 1)
    /\ evs[MAX_RETRIES].type = "rate_limit_failed"
    /\ evs[MAX_RETRIES].payload = [max_retries |-> MAX_RETRIES]

\* C16: a retry-wrapped model invocation calls the provider at most 3 times;
\* after the 1st and the 2nd rate-limited failure it emits rate_limit_retry
\* with attempt 1 and 2 and tries again; when the 3rd attempt is rate-limited
\* too it emits one rate_limit_failed and re-raises; an exception that is no
\* rate-limit error is re-raised at once, with no retry and no rate-limit
\* event for it
C16_RetryAtMostThree ==
    /\ w.attempt \in 1..MAX_RETRIES
    /\ w.pc = "invoke" => RetriesUpTo(RateEvents(w.turn_id), w.attempt - 1)
    /\ w.pc = "emit_retry" =>
          /\ is_rate_limit(w.exception)
          /\ w.attempt < MAX_RETRIES
          /\ RetriesUpTo(RateEvents(w.turn_id), w.attempt - 1)
    /\ w.pc = "emit_rate_failed" =>
          /\ is_rate_limit(w.exception)
          /\ w.attempt = MAX_RETRIES
          /\ RetriesUpTo(RateEvents(w.turn_id), MAX_RETRIES - 1)
    /\ w.pc = "rollback" =>
          IF is_rate_limit(w.exception)
          THEN w.attempt = MAX_RETRIES /\ Exhausted(RateEvents(w.turn_id))
          ELSE RetriesUpTo(RateEvents(w.turn_id), w.attempt - 1)
    /\ \A t \in Turns :
          HasW(t, "turn_finished") =>
              \/ Exhausted(RateEvents(t)) /\ HasW(t, "error")
              \/ \E n \in 0..MAX_RETRIES - 1 : RetriesUpTo(RateEvents(t), n)

\* C16 witness: one turn failed after three rate-limited attempts, another
\* was rate-limited once and then failed with an error that is no rate limit
C16_Witness ==
    \E t, u \in Turns :
        /\ Exhausted(RateEvents(t)) /\ HasW(t, "turn_finished")
        /\ RetriesUpTo(RateEvents(u), 1) /\ HasW(u, "turn_finished")
        /\ \E k \in WorkerPositions(u, "error") :
              wlog[k].payload = [message |-> error_message(Boom)]

\* the tool results held by a sequence of history messages
ResultsIn(msgs) ==
    {m.content : m \in {x \in Range(msgs) : "content" \in DOMAIN x}}
    \cup UNION {{p.result : p \in Range(m.parts)} :
                   m \in {x \in Range(msgs) : "parts" \in DOMAIN x}}

\* what a step of the worker in the tool part of the loop does
ToolStepKeepsTurn ==
    /\ w.pc = "tool_call" /\ w' # w =>
          /\ w'.pc \in {"emit_dedup", "emit_result"}
          /\ w'.status = w.status
          /\ w'.result.kind \in {"value", "unknown_tool", "tool_error"}
          /\ Head(w.function_calls).name \notin TOOL_FUNCTIONS =>
                w'.result = [kind |-> "unknown_tool",
                             of |-> <<Head(w.function_calls).name>>,
                             long |-> FALSE]
    /\ w.pc = "emit_result" /\ w' # w =>
          /\ Last(wlog') = [type |-> "tool_result", turn_id |-> w.turn_id,
                            payload |-> [name |-> Head(w.function_calls).name,
                                         preview |-> [text |-> w.result,
                                                      cut |-> w.result.long]]]
          /\ Last(w'.tool_results) = <<Head(w.function_calls), w.result>>
          /\ w'.status = w.status
          /\ w'.pc \in {"tool_call", "append_results"}
    /\ w.pc = "append_results" /\ w' # w =>
          /\ w'.pc = "invoke"
          /\ w'.status = w.status
          /\ Len(history') > Len(history)
          /\ SubSeq(history', 1, Len(history)) = history
          /\ \A m \in Range(SubSeq(history', Len(history) + 1, Len(history'))) :
                m.role = "tool"
          /\ ResultsIn(SubSeq(history', Len(history) + 1, Len(history')))
                = {w.tool_results[i][2] : i \in 1..Len(w.tool_results)}

\* C17: a call of an unknown tool, or a tool that raises, does not fail the
\* turn: the tool step yields a text (the unknown-tool text, or the text of the
\* exception), a tool_result event is emitted for that text, the text is
\* appended to history as the result of the tool, and the loop goes on to the
\* next model invocation
C17_ToolErrorsAreResults == [][ToolStepKeepsTurn]_vars

\* C17 witness: a turn in which a registered tool raised and an unregistered
\* tool was called has got the model's answer and finished as completed
C17_Witness ==
    \E t \in Turns :
        /\ \E j, k \in WorkerPositions(t, "tool_result") :
              /\ wlog[j].payload.preview.text.kind = "tool_error"
              /\ wlog[k].payload.preview.text.kind = "unknown_tool"
        /\ HasW(t, "answer")
        /\ Last(wlog) = [type |-> "turn_finished", turn_id |-> t,
                         payload |-> [status |-> "completed"]]

\* what the steps of a clear() call in handler thread h do
ClearStep(h) ==
    /\ hpc[h] = "clear_drain" /\ hpc'[h] # hpc[h] => history' = history
    /\ hpc[h] = "clear_check" /\ hpc'[h] # hpc[h] =>
          IF busy
          THEN /\ history' = history
               /\ hpc'[h] = "clear_return"
               /\ ~hloc'[h].ok
               /\ ClearHttpStatus(hloc'[h].ok) = 409
          ELSE /\ history' = <<>>
               /\ ~busy'
               /\ hpc'[h] = "clear_emit"
    /\ hpc[h] = "clear_emit" /\ hpc'[h] # hpc[h] =>
          /\ history' = history
          /\ hpc'[h] = "clear_return"
          /\ hloc'[h].ok
          /\ ClearHttpStatus(hloc'[h].ok) = 200

\* C18: clear() never empties history while busy is true: whatever the worker
\* does meanwhile, the call either finds busy set, leaves history as it is and
\* returns (False, message), answered with HTTP 409, or empties history in a
\* step in which busy is false and returns (True, message), answered with 200;
\* and while a turn runs no step but the worker's own changes history
C18_ClearNeverWhileBusy ==
    [][/\ \A h \in Handlers : ClearStep(h)
       /\ busy /\ history' # history => w' # w]_vars

\* C18 witness: a clear() call has found the session busy and is about to
\* return False, the history of the running turn still being there
C18_Witness ==
    \E h \in Handlers :
        /\ hpc[h] = "clear_return"
        /\ ~hloc[h].ok
        /\ busy
        /\ history # <<>>

\* C19: when clear() is called on an idle session (the worker waits on the
\* empty queue, no turn runs, no other call is in progress) and get_status is
\* called after clear() has returned, no turn being submitted from the start
\* of the clear to the reply of the status, the status has history_size = 0,
\* busy = false and pending_count = 0
C19_ClearThenStatus ==
    \A h \in Handlers :
        hpc[h] = "status_return" /\ hloc[h].quiet =>
            /\ hloc[h].status.history_size = 0
            /\ hloc[h].status.busy = FALSE
            /\ hloc[h].status.pending_count = 0

\* C19 witness: a turn was answered, which left messages in history, the idle
\* session was then cleared, and the status asked for after that is ready
C19_Witness ==
    \E h \in Handlers :
        /\ hpc[h] = "status_return"
        /\ hloc[h].quiet
        /\ \E t \in Turns : HasW(t, "answer") /\ HasW(t, "turn_finished")
        /\ hloc[h].status.last_turn_id > 0

\* what holds when a cancel() call in handler thread h is about to return
CancelReturns(h) ==
    hpc[h] = "cancel_return" =>
        /\ hloc[h].queued \cap QueuedTurns(queue) = {}
        /\ CancelResult(h).dropped_pending = Cardinality(hloc[h].removed)
        /\ CancelResult(h).hard_cancel_supported = FALSE
        /\ \E k \in 1..Len(log) :
              log[k] = [type |-> "cancel_requested", turn_id |-> NoTurn,
                        payload |-> CancelResult(h)]
        /\ hloc[h].quiet => CancelResult(h).dropped_pending = 0

\* C20: cancel() removes every turn that is in the queue when it is called
\* and that the worker has not dequeued, reports the number of removed turns
\* as dropped_pending together with hard_cancel_supported = false, emits
\* cancel_requested with that result, and a second cancel() with no submit
\* after the first reports dropped_pending = 0
C20_CancelDropsQueued == \A h \in Handlers : CancelReturns(h)

\* the number of events of turn t with one of the given types
CountT(t, types) ==
    Cardinality({k \in 1..Len(tlog[t]) : tlog[t][k] \in types})

\* what holds in every state about the turns the worker has taken and the
\* turns that clear and cancel have removed
InFlightUntouched ==
    /\ \A t \in Turns :
          /\ CountT(t, {"turn_started"}) <= 1
          /\ CountT(t, {"answer", "error"}) <= 1
          /\ CountT(t, {"turn_finished"}) <= 1
          /\ Completed(t) => /\ CountT(t, {"turn_started"}) = 1
                             /\ CountT(t, {"answer", "error"}) = 1
    /\ \A i \in 1..Len(calls.removed) :
          /\ calls.removed[i] # w.turn_id
          /\ ~HasT(calls.removed[i], "turn_started")

\* C21: a turn that has emitted turn_started goes on to emit exactly one
\* answer or error and one turn_finished, whatever clear and cancel calls
\* interleave with it, given that provider calls return; clear and cancel
\* remove only turns that the worker has not taken from the queue
C21_InFlightTurnCompletes ==
    /\ []InFlightUntouched
    /\ \A t \in Turns : HasT(t, "turn_started") ~> Completed(t)

\* C21 witness: a clear was refused because a turn was running and removed
\* the turn queued behind it, a cancel was called too, and the first turn
\* has finished with one answer or error
C21_Witness ==
    \E h \in Handlers :
        /\ hpc[h] = "clear_return"
        /\ ~hloc[h].ok
        /\ calls.removed = <<2>>
        /\ calls.cancel >= 1
        /\ Completed(1)
        /\ CountT(1, {"answer", "error"}) = 1

\* the handler threads that hold a turn id they have not yet announced
Submitters == {h \in Handlers : hpc[h] \in {"submit_put", "submit_emit"}}

\* the number of submissions accepted so far: those in progress and those
\* whose turn_enqueued event is appended
AcceptedSubmissions ==
    Cardinality(Submitters)
    + Cardinality(UNION {{<<t, k>> : k \in TurnPositions(t, "turn_enqueued")} :
                         t \in Turns})

\* the ids handed out so far are 1..n for n accepted submissions, each once
IdsHandedOut ==
    /\ \A h, g \in Submitters : h # g => hloc[h].turn_id # hloc[g].turn_id
    /\ \A h \in Submitters : ~HasT(hloc[h].turn_id, "turn_enqueued")
    /\ \A t \in Turns : CountT(t, {"turn_enqueued"}) <= 1
    /\ {hloc[h].turn_id : h \in Submitters}
          \cup {t \in Turns : HasT(t, "turn_enqueued")}
       = 1..AcceptedSubmissions

\* a step of the run, as far as submissions are concerned
SubmitStep ==
    /\ IdsHandedOut'
    /\ \A h \in Handlers :
          /\ hpc[h] = "idle" /\ hpc'[h] = "submit_put" =>
                hloc'[h].turn_id = AcceptedSubmissions + 1
          /\ hpc[h] = "idle" /\ hpc'[h] = "submit_rejected" =>
                /\ hloc'[h].http = 400
                /\ hloc'[h].turn_id = NoLocals.turn_id
                /\ UNCHANGED <<session_vars, w, ghost_vars>>
                /\ AcceptedSubmissions' = AcceptedSubmissions

\* C22: the n-th accepted submission of a session receives turn id n and no
\* two submissions, concurrent ones included, receive the same id; a
\* submission whose input is no string or is empty once stripped is answered
\* 400, takes no id, puts nothing into the queue and appends no event
C22_TurnIdsInOrder == [][SubmitStep]_vars

\* C22 witness: two submissions are in progress at the same time with ids 1
\* and 2, neither announced yet
C22_Witness ==
    /\ Submitters = Handlers
    /\ {hloc[h].turn_id : h \in Handlers} = {1, 2}
    /\ turn_counter = 2

\* C22 witness of the rejection: a submission is rejected with 400 while the
\* other handler thread holds id 1 and has not yet queued it
C22_WitnessRejected ==
    \E h, g \in Handlers :
        /\ hpc[h] = "submit_rejected" /\ hloc[h].http = 400
        /\ hpc[g] = "submit_put" /\ hloc[g].turn_id = 1
        /\ turn_counter = 1 /\ queue = <<>>

\* the turn requests put into the queue so far (line 86), the ones the worker
\* has taken (line 173), and the ones clear and cancel calls have removed
PutTurns ==
    {hloc[h].turn_id : h \in {g \in Handlers : hpc[g] = "submit_emit"}}
       \cup {t \in Turns : HasT(t, "turn_enqueued")}
TakenTurns ==
    {t \in Turns : HasT(t, "turn_started")} \cup ({w.turn_id} \ {NoTurn})
RemovedTurns == Range(calls.removed)

\* the handler threads that are inside a clear or a cancel call
Drainers == {h \in Handlers : hpc[h] \notin {"idle", "submit_put", "submit_emit",
                                            "submit_rejected"}}

\* C23: every turn request put into the queue is taken out at most once: it
\* is started by the worker, once, or counted in the dropped_pending of one
\* clear or cancel call, never both and never twice; at all times the
\* requests put are the ones started, the ones dropped and the ones queued
C23_RequestsConsumedOnce ==
    /\ PutTurns = TakenTurns \cup RemovedTurns \cup QueuedTurns(queue)
    /\ TakenTurns \cap RemovedTurns = {}
    /\ TakenTurns \cap QueuedTurns(queue) = {}
    /\ RemovedTurns \cap QueuedTurns(queue) = {}
    /\ Cardinality(QueuedTurns(queue))
          = Cardinality({i \in 1..Len(queue) : queue[i] # Sentinel})
    /\ Cardinality(RemovedTurns) = Len(calls.removed)
    /\ \A t \in Turns :
          /\ CountT(t, {"turn_started"}) <= 1
          /\ HasT(t, "turn_started") /\ w.turn_id = t =>
                w.pc \notin {"set_busy", "emit_started"}
    /\ \A h \in Drainers :
          /\ hloc[h].dropped = Cardinality(hloc[h].removed)
          /\ hloc[h].removed \subseteq RemovedTurns
          /\ \A g \in Drainers \ {h} : hloc[g].removed \cap hloc[h].removed = {}

\* C23 witness: a clear and a cancel drain the queue at the same time, one of
\* them has removed the queued turn and counts it, the other counts nothing
C23_Witness ==
    \E h, g \in Handlers :
        /\ hpc[h] = "clear_check" /\ hpc[g] = "cancel_snapshot"
        /\ {hloc[h].dropped, hloc[g].dropped} = {0, 1}
        /\ calls.removed = <<1>>
        /\ PutTurns = {1} /\ TakenTurns = {}

\* the positions in evs of the events with one of the given types
PositionsOf(evs, types) == {k \in 1..Len(evs) : evs[k].type \in types}

\* in the events evs of a turn, the tool_call at position k has its
\* tool_result right after it, or after one tool_deduplicated for the same
\* call; pending says that the worker is still between the two
CallAnswered(evs, k, pending) ==
    LET call == evs[k].payload
        IsResult(j) == /\ evs[j].type = "tool_result"
                       /\ evs[j].payload.name = call.name
        IsDedup(j) == /\ evs[j].type = "tool_deduplicated"
                      /\ evs[j].payload = [name |-> call.name, args |-> call.args]
    IN  \/ k + 1 <= Len(evs) /\ IsResult(k + 1)
        \/ k + 2 <= Len(evs) /\ IsDedup(k + 1) /\ IsResult(k + 2)
        \/ pending /\ k = Len(evs)
        \/ pending /\ k + 1 = Len(evs) /\ IsDedup(k + 1)

\* the tool events of a turn are pairs of a call and its result, between the
\* user event and the answer or error
ToolEventsPaired(t) ==
    LET evs == WorkerEvents(t)
        pending == w.turn_id = t /\ w.pc \in {"emit_dedup", "emit_result"}
        results == PositionsOf(evs, {"tool_result"})
        call_ps == PositionsOf(evs, {"tool_call"})
        tool_ps == PositionsOf(evs, {"tool_call", "tool_deduplicated",
                                     "tool_result"})
    IN  /\ \A k \in call_ps : CallAnswered(evs, k, pending)
        /\ \A k \in PositionsOf(evs, {"tool_deduplicated"}) : k - 1 \in call_ps
        /\ \A k \in results :
              \/ k - 1 \in call_ps
              \/ k - 2 \in call_ps /\ evs[k - 1].type = "tool_deduplicated"
        /\ Cardinality(results) =
              Cardinality(call_ps) - (IF pending THEN 1 ELSE 0)
        /\ \A k \in tool_ps :
              /\ \E u \in PositionsOf(evs, {"user"}) : u < k
              /\ \A a \in PositionsOf(evs, {"answer", "error"}) : k < a

\* C24: within a turn every tool_call event is followed by one tool_result
\* event for that call, with at most one tool_deduplicated between them,
\* before the next tool_call; all tool events of the turn lie after its user
\* event and before its answer or error event
C24_ToolCallThenResult == \A t \in 1..turn_counter : ToolEventsPaired(t)

\* C24 witness: a finished turn with three calls, the third a repetition of
\* the second: call, result, call, result, call, deduplicated, result
C24_Witness ==
    \E t \in Turns :
        /\ HasW(t, "turn_finished")
        /\ LET evs == WorkerEvents(t)
               types == [k \in 1..Len(evs) |-> evs[k].type]
           IN  SubSeq(types, 3, Len(evs) - 2) =
                  <<"tool_call", "tool_result", "tool_call", "tool_result",
                    "tool_call", "tool_deduplicated", "tool_result">>

\* C25: at most one turn of a session executes at any time: between the
\* turn_started and the turn_finished event of a turn the worker's events
\* (turn_started, user, tool_call, tool_deduplicated, tool_result, warning,
\* answer, error, turn_finished) all carry that turn's id
C25_OneTurnAtATime ==
    /\ wlog # <<>> => wlog[1].type = "turn_started"
    /\ \A k \in 1..Len(wlog) - 1 :
          /\ wlog[k].type = "turn_finished" <=> wlog[k + 1].type = "turn_started"
          /\ wlog[k].type # "turn_finished" =>
                wlog[k + 1].turn_id = wlog[k].turn_id
    /\ \A t \in Turns :
          /\ CountT(t, {"turn_started"}) <= 1
          /\ CountT(t, {"turn_finished"}) <= 1
    /\ wlog # <<>> /\ Last(wlog).type # "turn_finished" =>
          /\ w.turn_id = Last(wlog).turn_id
          /\ w.pc \notin {"unstarted", "get", "set_busy", "emit_started", "exit"}

\* C25 witness: the second turn is queued and announced while the worker is
\* inside the first turn, after a tool call and before its answer
C25_Witness ==
    /\ w.turn_id = 1 /\ w.pc = "emit_answer"
    /\ HasW(1, "tool_result")
    /\ queue = <<2>>
    /\ HasT(2, "turn_enqueued")
    /\ ~HasT(1, "turn_finished")

\* the sessions with the given id that were published by a create call
Published(objs, id) ==
    {i \in 1..Len(objs) : objs[i].session_id = id /\ objs[i].published}

\* a step of the manager, as far as create_session is concerned
CreateStep ==
    /\ \A id \in SessionIds : Cardinality(Published(objects', id)) <= 1
    /\ \A id \in DOMAIN sessions :
          sessions[id] # NoSession =>
              id \in DOMAIN sessions' /\ sessions'[id] = sessions[id]
    /\ \A c \in Callers :
          mthread[c].pc = "idle" /\ mthread'[c].op = "create" =>
              IF mthread'[c].id \in DOMAIN sessions
              THEN /\ mthread'[c].pc = "return"
                   /\ mthread'[c].exception = "ValueError"
                   /\ mthread'[c].http = 400
                   /\ UNCHANGED <<sessions, objects>>
              ELSE /\ mthread'[c].pc = "create_build"
                   /\ mthread'[c].id \in DOMAIN sessions'
                   /\ sessions'[mthread'[c].id] = NoSession

\* C26: of the create calls for one session id, concurrent ones included, at
\* most one succeeds; a create for an id that is registered or is still being
\* initialized fails with the duplicate error, answered 400, and leaves the
\* dict and the registered session as they are
C26_CreateOncePerId == [][CreateStep]_vars

\* C26 witness: a create is refused with 400 while another thread is still
\* initializing a session with the same id, and a session with another id
\* is registered
C26_Witness ==
    \E c, d \in Callers, id \in SessionIds :
        /\ mthread[c].pc = "create_start" /\ mthread[c].id = id
        /\ mthread[d].pc = "return" /\ mthread[d].op = "create"
        /\ mthread[d].id = id /\ mthread[d].http = 400
        /\ sessions[id] = NoSession
        /\ Initialized(sessions) # {}

\* the step of create_session that handles the failure of thread c
CleanupStep(c) ==
    mthread[c].pc = "create_cleanup" /\ mthread'[c].pc = "return"

\* C27: when building the runtime or the tools or starting the session fails
\* inside create_session, under any interleaving with the other calls of the
\* manager, the placeholder of the id is removed, so that the id can be
\* created again, and the caller receives the failure that occurred, not
\* another error
C27_FailedCreateCleansUp ==
    [][\A c \in Callers :
          CleanupStep(c) =>
              /\ mthread'[c].exception = mthread[c].exception
              /\ mthread'[c].http = error_status(mthread[c].exception)
              /\ \/ mthread[c].id \notin DOMAIN sessions'
                 \/ sessions'[mthread[c].id] # NoSession]_vars

\* the ids whose create is between the reservation and the publication
BeingCreated ==
    {mthread[c].id : c \in {d \in Callers :
        mthread[d].pc \in {"create_build", "create_start", "create_publish",
                           "create_cleanup"}}}

\* a session object is fully initialized: its worker thread is started and
\* session_created is its first event
FullyInitialized(session) ==
    /\ session.worker_started
    /\ session.events # <<>>
    /\ session.events[1] = "session_created"

\* a step of the manager, as far as get_session and list_sessions are
\* concerned
LookupStep ==
    \A g \in Callers :
        mthread[g].pc = "idle" /\ mthread'[g].op \in {"get", "list"} =>
            /\ \A s \in mthread'[g].found :
                  /\ FullyInitialized(objects[s])
                  /\ objects[s].session_id \notin BeingCreated
            /\ mthread'[g].op = "get" =>
                  IF mthread'[g].id \in BeingCreated
                        \/ mthread'[g].id \notin DOMAIN sessions
                  THEN /\ mthread'[g].http = 404
                       /\ mthread'[g].found = {}
                  ELSE /\ mthread'[g].http = 200
                       /\ mthread'[g].found = {sessions[mthread'[g].id]}
            /\ mthread'[g].op = "list" =>
                  {objects[s].session_id : s \in mthread'[g].found}
                     = DOMAIN sessions \ BeingCreated

\* C28: get_session and list_sessions never expose a session that is not
\* fully initialized: while the create for an id is between reserving the
\* placeholder and publishing, get_session for the id answers not found
\* (404) and list_sessions leaves the id out; every session they return has
\* its worker started and session_created as its first event
C28_OnlyInitializedExposed == [][LookupStep]_vars

\* C28 witness: a lookup of an id was answered 404 while the session with
\* that id is started and not yet published, and a list returned the
\* session with the other id only
C28_Witness ==
    \E c, g \in Callers :
        /\ mthread[c].pc = "create_publish"
        /\ FullyInitialized(objects[mthread[c].session])
        /\ sessions[mthread[c].id] = NoSession
        /\ mthread[g].pc = "return" /\ mthread[g].op = "get"
        /\ mthread[g].id = mthread[c].id /\ mthread[g].http = 404
        /\ Initialized(sessions) # {}

\* stop_all has returned and no create call is in progress
ShutdownSettled ==
    /\ mthread[MainThread].pc = "stopped"
    /\ \A c \in Callers :
          mthread[c].pc \notin {"create_build", "create_start", "create_publish",
                                "create_cleanup"}

\* C29: once stop_all has returned and every create call that was in
\* progress has finished, the dict holds no session and stop() has been
\* invoked on every session that was ever started; create calls made after
\* stop_all began are left aside
C29_StopAllStopsEverySession ==
    ShutdownSettled =>
        \A s \in 1..Len(objects) :
            ~objects[s].late =>
                /\ s \notin Initialized(sessions)
                /\ objects[s].worker_started => objects[s].stopped

\* a header that is missing or differs from the configured token
Mismatch(header) == header = <<>> \/ header[1] # scene.auth_token[1]

TokenConfigured == scene.auth_token # <<>> /\ scene.auth_token[1] # ""

\* what the manager and the sessions hold: dict, sessions, counters, queue,
\* history, events and the record of the operations carried out
Operated == <<session_vars, w, calls, sessions, objects, ghost_vars>>

\* a thread takes up a request
HandlerTakes(h) == hpc[h] = "idle" /\ hpc'[h] # "idle"
CallerTakes(c) == mthread[c].pc = "idle" /\ mthread'[c].pc # "idle"

\* C30: with a token configured, a request whose X-Agent-Token header is
\* missing or not exactly the token is answered 401 and carries out no
\* manager or session operation: no session is created, no turn enqueued,
\* nothing drained, no history cleared and no event appended
C30_BadTokenAnswered401 ==
    [][TokenConfigured =>
          /\ \A h \in Handlers :
                HandlerTakes(h) /\ Mismatch(hloc'[h].header) =>
                    /\ hloc'[h].http = 401
                    /\ hpc'[h] = "unauthorized"
                    /\ UNCHANGED Operated
          /\ \A c \in Callers :
                CallerTakes(c) /\ Mismatch(mthread'[c].header) =>
                    /\ mthread'[c].http = 401
                    /\ mthread'[c].op = "unauthorized"
                    /\ mthread'[c].pc = "return"
                    /\ UNCHANGED Operated]_vars

\* a session request with a token in the wrong case and a manager request
\* without the header are both refused while a session is registered and a
\* turn has been accepted from requests that carried the token
C30_Witness ==
    /\ TokenConfigured
    /\ hpc["h1"] = "unauthorized"
    /\ hloc["h1"].header = <<"SECRET">>
    /\ hloc["h1"].http = 401
    /\ mthread["c1"].op = "unauthorized"
    /\ mthread["c1"].header = <<>>
    /\ mthread["c1"].http = 401
    /\ turn_counter > 0
    /\ Initialized(sessions) # {}

\* C31: a POST /shutdown that passes the check of the token is answered 200
C31_ShutdownAnswered200 ==
    \A c \in Callers :
        mthread[c].pc = "return" /\ mthread[c].op = "shutdown"
            => mthread[c].http = 200

\* the lines first..last of a file of total lines, cut at its end
NumbersOfRange(first, last, total) ==
    [i \in 1..(Min(last, total) - first + 1) |-> first + i - 1]

\* C32: read_file on a readable text file uses start' = max(1, start_line)
\* and end' = max(start', end_line), returns lines of the range start'..end'
\* in order from start', cut at the end of the file, and never more than 200
\* of them
C32_ReadFileRange ==
    reading.pc = "done" /\ ~reading.result.error =>
        LET first == Max(1, reading.start_line)
            last == Max(first, reading.end_line)
            wanted == NumbersOfRange(first, last, reading.total)
            got == reading.result.numbers
        IN  /\ Len(got) <= 200
            /\ Len(got) = Min(200, Len(wanted))
            /\ got = SubSeq(wanted, 1, Len(got))
            /\ reading.result.content = got

\* the call of the event at the last position of cps, <<>> when there is none
LastCall(evs, cps) ==
    IF cps = {} THEN <<>>
    ELSE <<evs[CHOOSE k \in cps : \A j \in cps : j <= k].payload>>

\* the step of the loop that handles one tool call: if the turn has no
\* earlier call, or the call just before it is another one, the tool runs
DiverseStep ==
    w.pc = "tool_call" /\ w'.pc # "tool_call" =>
        LET evs == WorkerEvents(w.turn_id)
            before == LastCall(evs, CallPositions(evs))
            fc == Head(w.function_calls)
        IN  before = <<>> \/ ~SameCall(before[1], fc) =>
                /\ w'.pc = "emit_result"
                /\ w'.tool_call_count = w.tool_call_count + 1
                /\ w'.result = _execute_tool(fc.name, fc.args, "ok")

\* C33: a tool call whose signature differs from that of the call just
\* before it in the turn is executed, also when the same signature was
\* executed and cached earlier in the turn; the first call of a turn is
\* executed whatever the earlier turns called
C33_DistinctCallExecuted == [][DiverseStep]_vars

\* C33 witness: turn 1 ended with the search; in turn 2 the search, the
\* listing and the search again have all run the tool, and no call of the
\* turn was answered from the cache
C33_Witness ==
    LET first == WorkerEvents(1)
        evs == WorkerEvents(2)
        cps == CallPositions(evs)
    IN  /\ w.turn_id = 2
        /\ w.pc = "append_results"
        /\ LastCall(first, CallPositions(first)) # <<>>
        /\ SameCall(LastCall(first, CallPositions(first))[1], CallA)
        /\ Cardinality(cps) = 3
        /\ \A k \in cps : SameCall(evs[k].payload, CallA) <=> evs[k].payload.index # 2
        /\ PositionsOf(evs, {"tool_deduplicated"}) = {}
        /\ w.tool_call_count = 3
        /\ _build_tool_signature(CallA.name, CallA.args) \in DOMAIN w.tool_result_cache

\* the worker is still handling the tool calls of the assistant message at
\* position i of history, the last one with tool calls
CallsInProgress(i) ==
    /\ w.pc \in {"tool_call", "emit_dedup", "emit_result", "append_results"}
    /\ \A j \in (i + 1)..Len(history) : "tool_calls" \notin DOMAIN history[j]

\* after the assistant message at position i with its k tool calls come k
\* tool messages, the j-th with the id of the j-th call, and no further one
ToolMessagesFollow(i) ==
    LET ids == history[i].tool_calls
        k == Len(ids)
    IN  /\ i + k <= Len(history)
        /\ \A j \in 1..k :
              /\ history[i + j].role = "tool"
              /\ history[i + j].tool_call_id = ids[j].id
        /\ i + k + 1 <= Len(history) => history[i + k + 1].role # "tool"

\* C34: for the OpenAI-style provider, every assistant message of history
\* with k tool calls is followed at once by exactly k tool messages, in the
\* order of the calls, each with the tool_call_id that the assistant message
\* records for its call, also when the provider gave the call no id
C34_ToolMessagesKeyed ==
    scene.provider = "kimi" =>
        \A i \in 1..Len(history) :
            "tool_calls" \in DOMAIN history[i] =>
                CallsInProgress(i) \/ ToolMessagesFollow(i)

\* the worker is between two turns: it waits for a request or has ended
NoTurnInFlight == w.pc \in {"unstarted", "get", "exit"} /\ ~busy

\* C35: whenever no turn is in flight, history is empty or its last message
\* has the assistant role, after completed and after failed turns alike
C35_HistoryEndsOnAssistant ==
    NoTurnInFlight => history = <<>> \/ Last(history).role = "assistant"

\* the clear of handler thread h has emptied the history and will return
\* ok = true; it has appended session_cleared
HistoryCleared(h) ==
    hpc[h] = "clear_emit" \/ (hpc[h] = "clear_return" /\ hloc[h].ok)
ClearAnnounced(h) == hpc[h] = "clear_return" /\ hloc[h].ok

\* the worker appends turn_started; the worker writes to history
StartsTurn == w.pc = "emit_started" /\ w'.pc # "emit_started"
WritesHistory == w.pc = "agent_turn" /\ history' # history

\* in a run whose only handler thread is h, every turn of the session was
\* submitted, and its submit_turn had returned, before h called clear: none
\* of them is started after the session_cleared of a clear that succeeded,
\* and none writes to the history that this clear has emptied
ClearedTurnsStayOut(h) ==
    scene.handlers = {h} =>
        /\ ClearAnnounced(h) => ~StartsTurn
        /\ HistoryCleared(h) => ~WritesHistory

\* C36: if clear() returns ok = true, every turn whose submit_turn had
\* returned before the clear was called is finished or was dropped by it:
\* none of them emits turn_started after session_cleared and none writes to
\* the cleared history
C36_ClearLeavesNoTurn == [][\A h \in Handlers : ClearedTurnsStayOut(h)]_vars

\* the positions of handler thread h inside clear() before its outcome is
\* known
ClearPending == {"clear_drain", "clear_putback", "clear_check"}

\* a step of handler thread h inside a clear() that is, or turns out to be,
\* rejected: the step that finds the session busy, and the steps before and
\* after it, append no event and leave history as it is; at the rejection
\* the queue of a session with no other handler thread holds no turn, and
\* the turns counted are the turns this clear took out
RejectedClearStep(h) ==
    /\ hpc[h] = "clear_check" /\ hpc'[h] = "clear_return" =>
          /\ busy
          /\ ~hloc'[h].ok
          /\ hloc[h].dropped = Cardinality(hloc[h].removed)
          /\ scene.handlers = {h} => QueuedTurns(queue) = {}
          /\ UNCHANGED <<events, last_event_id, history, ghost_vars>>
    /\ /\ hpc[h] \in ClearPending /\ hpc'[h] \in ClearPending
       /\ hpc'[h] # hpc[h] \/ hloc'[h] # hloc[h]
       => UNCHANGED <<events, last_event_id, history, ghost_vars>>
    /\ hpc[h] = "clear_return" /\ ~hloc[h].ok /\ hpc'[h] # hpc[h] =>
          /\ hpc'[h] = "idle"
          /\ UNCHANGED <<events, last_event_id, history, queue, ghost_vars>>

C38_EnqueuedBeforeStarted ==
    \A t \in Turns :
        \A k \in 1..Len(tlog[t]) :
            tlog[t][k] = "turn_started" =>
                \E j \in 1..(k - 1) : tlog[t][j] = "turn_enqueued"

\* submit_turn has returned the id of turn t and appended turn_enqueued
Accepted(t) == HasT(t, "turn_enqueued")

\* turn t has its turn_finished, or a clear or cancel has taken it out of the
\* queue and counted it
Settled(t) ==
    \/ HasT(t, "turn_finished")
    \/ \E i \in 1..Len(calls.removed) : calls.removed[i] = t

\* C39: under fair scheduling, with provider calls that return, every turn
\* that submit_turn accepted is eventually finished or counted as dropped by
\* a clear or cancel, also when it was submitted after stop()
C39_AcceptedTurnSettles == \A t \in Turns : Accepted(t) ~> Settled(t)

\* the worker is inside a turn, has processed at least one tool call of it,
\* and is not in the middle of processing a call
BetweenCalls ==
    /\ w.turn_id # NoTurn
    /\ w.raw_tool_call_count >= 1
    /\ w.pc \notin {"emit_dedup", "emit_result"}

\* C40: at every point of a turn at which a tool call has been processed and
\* none is being processed, the raw count is the effective count plus the
\* number of tool_deduplicated events of the turn, and is the number of the
\* turn's tool_call events and of its tool_result events; the index in the
\* payload of the n-th tool_call event is n
C40_CountsAgree ==
    BetweenCalls =>
        LET evs == WorkerEvents(w.turn_id)
            cps == CallPositions(evs)
            ofType(type) == Cardinality({k \in 1..Len(evs) : evs[k].type = type})
        IN  /\ w.raw_tool_call_count
                  = w.tool_call_count + ofType("tool_deduplicated")
            /\ w.raw_tool_call_count = Cardinality(cps)
            /\ w.raw_tool_call_count = ofType("tool_result")
            /\ \A k \in cps :
                  evs[k].payload.index = Cardinality({j \in cps : j <= k})

\* C40 witness: three calls of a turn have been processed, one of them
\* answered from the cache, and the third tool_call event has index 3
C40_Witness ==
    /\ BetweenCalls
    /\ w.raw_tool_call_count = 3
    /\ w.tool_call_count = 2
    /\ \E k \in 1..Len(wlog) :
          /\ wlog[k].type = "tool_call"
          /\ wlog[k].turn_id = w.turn_id
          /\ wlog[k].payload.index = 3
    /\ HasW(w.turn_id, "tool_deduplicated")

====
